---- MODULE Spec2Model ----
(***************************************************************************)
(* Verification model of cere-cli: the streaming response parser           *)
(* (src/src/api.ts), the chat engine (InteractiveChat, chat.ts), the       *)
(* conversation store (src/src/conversation.ts) and the tool manager       *)
(* (src/src/tools.ts).                                                     *)
(*                                                                         *)
(* Text is modelled as a sequence of tokens.  A token is one character or  *)
(* one fixed run of characters that the code only ever handles as a whole  *)
(* (the "data: " prefix, the JSON skeleton around a delta's content).      *)
(***************************************************************************)
EXTENDS Integers, Sequences, FiniteSets, TLC

VARIABLES
    messages,       \* ConversationManager.messages: the live transcript
    sessionId,      \* ConversationManager.sessionId
    store,          \* the history directory: session id -> stored session file
    config,         \* the process-wide Conf store
    isRunning,      \* InteractiveChat.isRunning
    pc,             \* where the engine is: idle, posting, streaming, exited
    errors,         \* number of displayError calls so far
    display,        \* the message the last command displayed, and with which display call
    commands,       \* number of command lines handled so far
    outcome,        \* how the last sendMessage ended
    request,        \* <<>> or <<r>>: the request of the last streamChatCompletion call
    streamOpen,     \* response.data can still emit events
    promise,        \* the Promise streamChatCompletion returns
    buffer,         \* streamChatCompletion's carry-over buffer
    fullResponse,   \* sendMessage's accumulator
    surfaced,       \* the onChunk calls of the current call, in order
    parsed,         \* the payloads JSON.parse accepted in the current call, in order
    wire,           \* the chunks response.data delivered in the current call, in order
    sends,          \* number of sendMessage calls so far
    delivered,      \* number of chunks delivered so far, over all responses
    tools,          \* ToolManager.tools: a Map, kept as its entries in insertion order
    handlers,       \* ToolManager.handlers: a Map, kept as its entries in insertion order
    expression,     \* the expression the calculator is asked for
    lastCall,       \* <<>> or <<c>>: the invocation of the last executeTool call
    lastResult,     \* <<>> or <<r>>: what that call returned
    raised,         \* that call threw instead of returning
    registrations,  \* number of registerTool calls made after the constructor
    evaluated,      \* <<>> or <<t>>: the text the last call handed to new Function
    lastRegistered, \* <<>> or <<[tool, handler]>>: the last registerTool call
    now,            \* the clock new Date() reads, in ticks
    listed,         \* what the last listSessions call returned
    found,          \* the results of the last search, in the order displayed
    offered,        \* handleExit asked whether to save
    exitCode,       \* -1 while the process runs, else its exit status
    called,         \* <<>> or <<r>>: what the last direct saveSession or loadSession call did
    engines         \* number of InteractiveChat engines the process has started

sessionVars == <<now, listed, found, offered, exitCode, called, engines>>
engineVars == <<messages, sessionId, store, config, isRunning, pc, errors, outcome, request, sends,
                display, commands, sessionVars>>
streamVars == <<streamOpen, promise, buffer, fullResponse, surfaced, parsed, wire>>
vars == <<messages, sessionId, store, config, isRunning, pc, errors, display, commands, outcome, request,
          streamOpen, promise, buffer, fullResponse, surfaced, parsed, wire, sends, delivered,
          tools, handlers, expression, lastCall, lastResult, raised, registrations,
          evaluated, lastRegistered, now, listed, found, offered, exitCode, called, engines>>
toolVars == <<tools, handlers, expression, lastCall, lastResult, raised, registrations,
          evaluated, lastRegistered>>

----------------------------------------------------------------------------
(* Bounds of the model *)

MaxChunks == 3      \* chunks delivered per run
MaxSends == 2       \* sendMessage calls per run
MaxRegistrations == 2   \* registerTool calls after the constructor
MaxExprLen == 3     \* characters of an enumerated calculator expression
MaxCommands == 2    \* command lines handled per run

----------------------------------------------------------------------------
(* Tokens of the wire text *)

D == "data: "           \* the six characters of the event marker
LF == "LF"              \* the newline character, 0x0A
BSN == "BSN"            \* the two characters backslash, n
DONE == "[DONE]"        \* the sentinel payload
OpenC == "{content:"    \* {"choices":[{"delta":{"content":"
CloseC == "}"           \* "}}]}
Bad == "#"              \* a character that is no JSON at this place

\* the two bytes of the UTF-8 encoding of U+00E9, the character they decode to,
\* and the replacement character a decoder puts for a byte it cannot place
LeadByte == "0xC3"
TrailByte == "0xA9"
EAcute == "U+00E9"
Replacement == "U+FFFD"

ContentChars == {"H", "e", "l", "o", EAcute, Replacement}

\* {"choices":[{"delta":{"tool_calls":[{"index":i,"function":{"arguments":f}}]}}]}
ToolFrames == {"tc0:{x:", "tc0:1}", "tc1:{}"}

ToolIndex(t) == IF t = "tc1:{}" THEN 1 ELSE 0

ToolFragment(t) ==
    CASE t = "tc0:{x:" -> <<"{", "x", ":">>
      [] t = "tc0:1}" -> <<"1", "}">>
      [] t = "tc1:{}" -> <<"{", "}">>

Last(s) == s[Len(s)]
Front(s) == SubSeq(s, 1, Len(s) - 1)

RECURSIVE Flatten(_)
Flatten(ss) == IF ss = <<>> THEN <<>> ELSE Head(ss) \o Flatten(Tail(ss))

\* the same concatenation, computed by halves for long texts
RECURSIVE Concat(_)
Concat(ss) ==
    IF ss = <<>> THEN <<>>
    ELSE IF Len(ss) = 1 THEN ss[1]
    ELSE Concat(SubSeq(ss, 1, Len(ss) \div 2)) \o Concat(SubSeq(ss, Len(ss) \div 2 + 1, Len(ss)))

\* Array.prototype.join(sep)
RECURSIVE Join(_, _)
Join(parts, sep) ==
    IF parts = <<>> THEN <<>>
    ELSE IF Len(parts) = 1 THEN parts[1]
    ELSE parts[1] \o <<sep>> \o Join(Tail(parts), sep)

----------------------------------------------------------------------------
(* String operations used by the parser *)

\* chunk.toString(): the bytes of one chunk decoded as UTF-8 on
\* their own; a lead byte without its trail byte, and a trail byte without
\* its lead byte, decode to U+FFFD
RECURSIVE ChunkToString(_)
ChunkToString(bytes) ==
    IF bytes = <<>> THEN <<>>
    ELSE IF Len(bytes) >= 2 /\ bytes[1] = LeadByte /\ bytes[2] = TrailByte
    THEN <<EAcute>> \o ChunkToString(SubSeq(bytes, 3, Len(bytes)))
    ELSE IF bytes[1] \in {LeadByte, TrailByte}
    THEN <<Replacement>> \o ChunkToString(Tail(bytes))
    ELSE <<bytes[1]>> \o ChunkToString(Tail(bytes))

\* String.prototype.split(sep) for a one-token separator
RECURSIVE Split(_, _)
Split(s, sep) ==
    IF \E i \in 1..Len(s) : s[i] = sep
    THEN LET i == CHOOSE k \in 1..Len(s) : s[k] = sep /\ \A j \in 1..(k - 1) : s[j] # sep
         IN  <<SubSeq(s, 1, i - 1)>> \o Split(SubSeq(s, i + 1, Len(s)), sep)
    ELSE <<s>>

\* the separator the code passes to split: the literal '\\n'
LineSeparator == BSN

\* line.startsWith('data: ')
StartsWithData(line) == line # <<>> /\ line[1] = D

\* JSON.parse skips white space around the value
RECURSIVE TrimLeft(_)
TrimLeft(s) == IF s # <<>> /\ Head(s) = LF THEN TrimLeft(Tail(s)) ELSE s
RECURSIVE TrimRight(_)
TrimRight(s) == IF s # <<>> /\ Last(s) = LF THEN TrimRight(Front(s)) ELSE s
Trim(s) == TrimRight(TrimLeft(s))

\* a JSON string body: plain characters and the escape \n, which decodes to a newline
IsStringBody(s) == \A i \in 1..Len(s) : s[i] \in ContentChars \cup {BSN}
Decode(s) == [i \in 1..Len(s) |-> IF s[i] = BSN THEN LF ELSE s[i]]

\* JSON.parse(data) followed by parsed.choices?.[0]?.delta?.content:
\* ok = FALSE when JSON.parse throws; has = FALSE when content is undefined
JSONParse(data) ==
    LET t == Trim(data) IN
    IF Len(t) >= 2 /\ t[1] = OpenC /\ Last(t) = CloseC /\ IsStringBody(SubSeq(t, 2, Len(t) - 1))
    THEN [ok |-> TRUE, has |-> TRUE, content |-> Decode(SubSeq(t, 2, Len(t) - 1))]
    ELSE IF Len(t) = 1 /\ t[1] \in ToolFrames
    THEN [ok |-> TRUE, has |-> FALSE, content |-> <<>>]
    ELSE [ok |-> FALSE, has |-> FALSE, content |-> <<>>]

\* the for loop over the complete lines of one 'data' event
RECURSIVE ProcessLines(_)
ProcessLines(lines) ==
    IF lines = <<>> THEN [chunks |-> <<>>, parsed |-> <<>>, done |-> FALSE]
    ELSE LET line == Head(lines)
             data == Tail(line)
         IN  IF ~StartsWithData(line) THEN ProcessLines(Tail(lines))
             ELSE IF data = <<DONE>> THEN [chunks |-> <<>>, parsed |-> <<>>, done |-> TRUE]
             ELSE LET p == JSONParse(data)
                      rest == ProcessLines(Tail(lines))
                  IN  IF ~p.ok THEN rest
                      ELSE [chunks |-> (IF p.has /\ p.content # <<>> THEN <<p.content>> ELSE <<>>)
                                        \o rest.chunks,
                            parsed |-> <<Trim(data)>> \o rest.parsed,
                            done |-> rest.done]

\* resolve() and reject() settle a pending promise and are no-ops afterwards
Resolve(p) == IF p = "pending" THEN "resolved" ELSE p
Reject(p) == IF p = "pending" THEN "rejected" ELSE p

\* a slip: fullResponse = chunk
AccumulateOverwrites(full, chunk) == chunk

\* sendMessage's onChunk callback: fullResponse += chunk
Accumulate(full, chunk) == full \o chunk

RECURSIVE AccumulateAll(_, _)
AccumulateAll(full, chunks) ==
    IF chunks = <<>> THEN full
    ELSE AccumulateAll(Accumulate(full, Head(chunks)), Tail(chunks))

----------------------------------------------------------------------------
(* The stream's events *)

\* response.data.on('data', ...)
OnData(chunk) ==
    /\ streamOpen
    /\ delivered < MaxChunks
    /\ delivered' = delivered + 1
    /\ LET lines == Split(buffer \o ChunkToString(chunk), LineSeparator)
           r == ProcessLines(Front(lines))
       IN  /\ buffer' = Last(lines)
           /\ surfaced' = surfaced \o r.chunks
           /\ parsed' = parsed \o r.parsed
           /\ fullResponse' = AccumulateAll(fullResponse, r.chunks)
           /\ promise' = IF r.done THEN Resolve(promise) ELSE promise
    /\ wire' = Append(wire, chunk)
    /\ UNCHANGED <<streamOpen>>
    /\ UNCHANGED <<engineVars, toolVars>>

\* response.data.on('end', () => resolve())
OnEnd ==
    /\ streamOpen
    /\ streamOpen' = FALSE
    /\ promise' = Resolve(promise)
    /\ UNCHANGED <<buffer, fullResponse, surfaced, parsed, wire, delivered>>
    /\ UNCHANGED <<engineVars, toolVars>>

\* response.data.on('error', reject)
OnError ==
    /\ streamOpen
    /\ streamOpen' = FALSE
    /\ promise' = Reject(promise)
    /\ UNCHANGED <<buffer, fullResponse, surfaced, parsed, wire, delivered>>
    /\ UNCHANGED <<engineVars, toolVars>>

----------------------------------------------------------------------------
(* Numbers.  A JavaScript number is kept as an exact fraction n/d with d > 0 *)
(* in lowest terms; the rounding of IEEE-754 doubles is not modelled.        *)

Abs(x) == IF x < 0 THEN -x ELSE x

RECURSIVE GCD(_, _)
GCD(a, b) == IF b = 0 THEN a ELSE GCD(b, a % b)

Num(n, d) ==
    LET g == GCD(Abs(n), Abs(d))
        sg == IF d < 0 THEN -1 ELSE 1
    IN  [kind |-> "num", n |-> sg * (n \div g), d |-> sg * (d \div g)]

\* a value the model does not follow: +-Infinity, NaN, anything computed from
\* them, a power too big to keep exact
Untracked == [kind |-> "untracked", n |-> 0, d |-> 1]
\* the text holds a regular-expression literal: it compiles to a RegExp object or
\* is a SyntaxError, and the model does not follow which
RegExpOrThrown == [kind |-> "regexp", n |-> 0, d |-> 1]
Undefined == [kind |-> "undefined", n |-> 0, d |-> 1]
Thrown == [kind |-> "error", n |-> 0, d |-> 1]

IsNum(v) == v.kind = "num"

NumAdd(a, b) == IF IsNum(a) /\ IsNum(b) THEN Num(a.n * b.d + b.n * a.d, a.d * b.d) ELSE Untracked
NumSub(a, b) == IF IsNum(a) /\ IsNum(b) THEN Num(a.n * b.d - b.n * a.d, a.d * b.d) ELSE Untracked
NumMul(a, b) == IF IsNum(a) /\ IsNum(b) THEN Num(a.n * b.n, a.d * b.d) ELSE Untracked
\* x / 0 is Infinity, -Infinity or NaN
NumDiv(a, b) ==
    IF IsNum(a) /\ IsNum(b) /\ b.n # 0 THEN Num(a.n * b.d, a.d * b.n) ELSE Untracked
NumNeg(a) == IF IsNum(a) THEN Num(-a.n, a.d) ELSE Untracked

RECURSIVE IntPow(_, _)
IntPow(b, e) == IF e = 0 THEN 1 ELSE b * IntPow(b, e - 1)

\* a ** b, kept exact for a whole exponent and a base of one digit
NumPow(a, b) ==
    IF IsNum(a) /\ IsNum(b) /\ b.d = 1 /\ Abs(b.n) <= 9
            /\ Abs(a.n) <= 9 /\ a.d <= 9 /\ (a.n # 0 \/ b.n >= 0)
    THEN IF b.n >= 0 THEN Num(IntPow(a.n, b.n), IntPow(a.d, b.n))
         ELSE Num(IntPow(a.d, -b.n), IntPow(a.n, -b.n))
    ELSE Untracked

\* ToInt32 of a number of small magnitude: the fraction is cut off
ToInt32(a) == IF a.n >= 0 THEN a.n \div a.d ELSE -((-a.n) \div a.d)

RECURSIVE XorNat(_, _)
XorNat(x, y) ==
    IF x = 0 THEN y ELSE IF y = 0 THEN x
    ELSE (((x % 2) + (y % 2)) % 2) + 2 * XorNat(x \div 2, y \div 2)

\* the bitwise complement ~x of a 32-bit integer
BitNot(x) == -x - 1

\* x ^ y on 32-bit two's complement integers
XorInt(x, y) ==
    IF x >= 0 /\ y >= 0 THEN XorNat(x, y)
    ELSE IF x < 0 /\ y < 0 THEN XorNat(BitNot(x), BitNot(y))
    ELSE IF x < 0 THEN BitNot(XorNat(BitNot(x), y))
    ELSE BitNot(XorNat(x, BitNot(y)))

NumXor(a, b) == IF IsNum(a) /\ IsNum(b) THEN Num(XorInt(ToInt32(a), ToInt32(b)), 1) ELSE Untracked

----------------------------------------------------------------------------
(* evaluateMathExpression: the sanitizer, then the JavaScript the Function  *)
(* constructor compiles from "return " + sanitized (non-strict code).       *)
(* An expression is a sequence of one-character strings and holds no line   *)
(* terminator.                                                              *)

Digits == {"0", "1", "2", "3", "4", "5", "6", "7", "8", "9"}
DigitVal(c) ==
    CASE c = "0" -> 0 [] c = "1" -> 1 [] c = "2" -> 2 [] c = "3" -> 3 [] c = "4" -> 4
      [] c = "5" -> 5 [] c = "6" -> 6 [] c = "7" -> 7 [] c = "8" -> 8 [] c = "9" -> 9

\* the characters /[^0-9+\-*/().^\s]/ does not match
Allowed == Digits \cup {"+", "-", "*", "/", "(", ")", ".", "^", " "}

\* a slip: the character class also lets lower-case letters through
SanitizeKeepsLetters(expr) ==
    SelectSeq(expr, LAMBDA c : c \in Allowed \cup {"a", "e", "i", "p", "s", "t", "x"})

\* expr.replace(/[^0-9+\-*/().^\s]/g, '')
Sanitize(expr) == SelectSeq(expr, LAMBDA c : c \in Allowed)

\* the value of a run of digits in the given base
RECURSIVE DigitsVal(_, _)
DigitsVal(ds, base) ==
    IF ds = <<>> THEN 0 ELSE DigitsVal(Front(ds), base) * base + DigitVal(Last(ds))

\* the first index >= i of s that holds no digit
RECURSIVE SkipDigits(_, _)
SkipDigits(s, i) == IF i <= Len(s) /\ s[i] \in Digits THEN SkipDigits(s, i + 1) ELSE i

IsDigitAt(s, i) == i <= Len(s) /\ s[i] \in Digits

\* the numeric literal that starts at s[i]: its value and the index after it.
\* In non-strict code 0 followed by octal digits is a legacy octal literal.
NumericLiteral(s, i) ==
    LET j == SkipDigits(s, i)
        int == SubSeq(s, i, j - 1)
        legacyOctal == Len(int) >= 2 /\ int[1] = "0" /\ \A k \in 1..Len(int) : int[k] \notin {"8", "9"}
    IN  IF legacyOctal THEN [v |-> Num(DigitsVal(int, 8), 1), next |-> j]
        ELSE IF j <= Len(s) /\ s[j] = "." /\ (int # <<>> \/ IsDigitAt(s, j + 1))
        THEN LET k == SkipDigits(s, j + 1)
                 frac == SubSeq(s, j + 1, k - 1)
                 scale == IntPow(10, Len(frac))
             IN  [v |-> Num(DigitsVal(int, 10) * scale + DigitsVal(frac, 10), scale), next |-> k]
        ELSE [v |-> Num(DigitsVal(int, 10), 1), next |-> j]

NumTok(v) == [k |-> "num", v |-> v, s |-> ""]
OpTok(s) == [k |-> "op", v |-> Undefined, s |-> s]

\* the index after the block comment whose body starts at i, 0 when it never ends
RECURSIVE CommentEnd(_, _)
CommentEnd(s, i) ==
    IF i + 1 > Len(s) THEN 0
    ELSE IF s[i] = "*" /\ s[i + 1] = "/" THEN i + 2
    ELSE CommentEnd(s, i + 1)

\* the tokens of s from index i on, after the tokens so far.  status is "ok",
\* "error" (an unterminated comment or regular expression) or "regexp" (a / where
\* an operand is expected starts a regular-expression literal that is closed)
RECURSIVE Lex(_, _, _)
Lex(s, i, toks) ==
    IF i > Len(s) THEN [status |-> "ok", toks |-> toks]
    ELSE LET c == s[i]
             two == IF i < Len(s) THEN <<c, s[i + 1]>> ELSE <<c>>
             operand == toks = <<>> \/ (Last(toks).k = "op" /\ Last(toks).s # ")")
         IN  IF c = " " THEN Lex(s, i + 1, toks)
             ELSE IF c \in Digits \/ (c = "." /\ IsDigitAt(s, i + 1))
             THEN LET lit == NumericLiteral(s, i)
                  IN  Lex(s, lit.next, Append(toks, NumTok(lit.v)))
             ELSE IF two = <<"/", "/">> THEN [status |-> "ok", toks |-> toks]
             ELSE IF two = <<"/", "*">>
             THEN IF CommentEnd(s, i + 2) = 0 THEN [status |-> "error", toks |-> toks]
                  ELSE Lex(s, CommentEnd(s, i + 2), toks)
             ELSE IF c = "/" /\ operand
             THEN IF \E j \in (i + 1)..Len(s) : s[j] = "/"
                  THEN [status |-> "regexp", toks |-> toks]
                  ELSE [status |-> "error", toks |-> toks]
             ELSE IF two \in {<<"+", "+">>, <<"-", "-">>, <<"*", "*">>}
             THEN Lex(s, i + 2, Append(toks, OpTok(two[1] \o two[2])))
             ELSE Lex(s, i + 1, Append(toks, OpTok(c)))

IsOp(toks, i, s) == i <= Len(toks) /\ toks[i].k = "op" /\ toks[i].s = s

Fail == [ok |-> FALSE, v |-> Thrown, next |-> 0, unary |-> FALSE]
Parsed(v, next, unary) == [ok |-> TRUE, v |-> v, next |-> next, unary |-> unary]

\* the expression grammar of JavaScript over these tokens, lowest precedence
\* first: ^ (bitwise XOR), + -, * /, ** (right-associative), unary + -, primary.
\* ++ and -- never have a reference to work on, and . is never a member access:
\* each is a SyntaxError.
\* Parse(rule, toks, i, left): the rule applied at token i; the rules that
\* continue a left operand ("mul+", "add+", "xor+") take it in left.
RECURSIVE Parse(_, _, _, _)
Parse(rule, toks, i, left) ==
    CASE rule = "primary" ->
            IF i > Len(toks) THEN Fail
            ELSE IF toks[i].k = "num" THEN Parsed(toks[i].v, i + 1, FALSE)
            ELSE IF toks[i].s = "("
            THEN LET e == Parse("xor", toks, i + 1, Fail)
                 IN  IF e.ok /\ IsOp(toks, e.next, ")") THEN Parsed(e.v, e.next + 1, FALSE) ELSE Fail
            ELSE Fail
      [] rule = "unary" ->
            IF IsOp(toks, i, "-") \/ IsOp(toks, i, "+")
            THEN LET e == Parse("unary", toks, i + 1, Fail)
                 IN  IF ~e.ok THEN Fail
                     ELSE IF toks[i].s = "-" THEN Parsed(NumNeg(e.v), e.next, TRUE)
                     ELSE Parsed(IF IsNum(e.v) THEN e.v ELSE Untracked, e.next, TRUE)
            ELSE Parse("primary", toks, i, Fail)
      \* a unary expression may not be the base of **
      [] rule = "exp" ->
            LET b == Parse("unary", toks, i, Fail)
            IN  IF ~b.ok THEN Fail
                ELSE IF IsOp(toks, b.next, "**")
                THEN IF b.unary THEN Fail
                     ELSE LET e == Parse("exp", toks, b.next + 1, Fail)
                          IN  IF e.ok THEN Parsed(NumPow(b.v, e.v), e.next, FALSE) ELSE Fail
                ELSE b
      [] rule = "mul" ->
            LET l == Parse("exp", toks, i, Fail)
            IN  IF l.ok THEN Parse("mul+", toks, l.next, l) ELSE Fail
      [] rule = "mul+" ->
            IF IsOp(toks, i, "*") \/ IsOp(toks, i, "/")
            THEN LET r == Parse("exp", toks, i + 1, Fail)
                 IN  IF ~r.ok THEN Fail
                     ELSE Parse("mul+", toks, r.next,
                                Parsed(IF toks[i].s = "*" THEN NumMul(left.v, r.v)
                                       ELSE NumDiv(left.v, r.v), r.next, FALSE))
            ELSE left
      [] rule = "add" ->
            LET l == Parse("mul", toks, i, Fail)
            IN  IF l.ok THEN Parse("add+", toks, l.next, l) ELSE Fail
      [] rule = "add+" ->
            IF IsOp(toks, i, "+") \/ IsOp(toks, i, "-")
            THEN LET r == Parse("mul", toks, i + 1, Fail)
                 IN  IF ~r.ok THEN Fail
                     ELSE Parse("add+", toks, r.next,
                                Parsed(IF toks[i].s = "+" THEN NumAdd(left.v, r.v)
                                       ELSE NumSub(left.v, r.v), r.next, FALSE))
            ELSE left
      [] rule = "xor" ->
            LET l == Parse("add", toks, i, Fail)
            IN  IF l.ok THEN Parse("xor+", toks, l.next, l) ELSE Fail
      [] rule = "xor+" ->
            IF IsOp(toks, i, "^")
            THEN LET r == Parse("add", toks, i + 1, Fail)
                 IN  IF ~r.ok THEN Fail
                     ELSE Parse("xor+", toks, r.next, Parsed(NumXor(left.v, r.v), r.next, FALSE))
            ELSE left

\* new Function(...names, `return ${sanitized}`)(...values): the value returned,
\* or Thrown when the text does not compile
RunFunction(sanitized) ==
    LET lx == Lex(sanitized, 1, <<>>)
    IN  IF lx.status = "error" THEN Thrown
        ELSE IF lx.status = "regexp" THEN RegExpOrThrown
        ELSE IF lx.toks = <<>> THEN Undefined
        ELSE LET e == Parse("xor", lx.toks, 1, Fail)
             IN  IF e.ok /\ e.next = Len(lx.toks) + 1 THEN e.v ELSE Thrown

\* evaluateMathExpression(expr) for a string expr
EvaluateMathExpression(expr) == RunFunction(Sanitize(expr))

----------------------------------------------------------------------------
(* The tool registry *)

\* a slip: an existing key is left as it is
MapSetKeepsFirst(m, k, v) ==
    IF \E i \in 1..Len(m) : m[i].key = k THEN m
    ELSE Append(m, [key |-> k, value |-> v])

\* a slip: an existing key is deleted and set again, which moves it to the end
MapSetMovesToEnd(m, k, v) ==
    Append(SelectSeq(m, LAMBDA e : e.key # k), [key |-> k, value |-> v])

\* Map.prototype.set: a new key goes last, an existing key keeps its place
MapSet(m, k, v) ==
    IF \E i \in 1..Len(m) : m[i].key = k
    THEN [i \in 1..Len(m) |-> IF m[i].key = k THEN [key |-> k, value |-> v] ELSE m[i]]
    ELSE Append(m, [key |-> k, value |-> v])

MapHas(m, k) == \E i \in 1..Len(m) : m[i].key = k
MapGet(m, k) == m[CHOOSE i \in 1..Len(m) : m[i].key = k].value

\* registerTool: tools.set(tool.name, tool); handlers.set(tool.name, handler)
RegisterInto(m, name, v) == MapSet(m, name, v)

\* the registry after the constructor ran registerBuiltInTools
BuiltInNames == <<"calculate", "get_current_time", "generate_random">>
BuiltInTools ==
    RegisterInto(RegisterInto(RegisterInto(<<>>,
        "calculate", [name |-> "calculate", description |-> "Perform mathematical calculations"]),
        "get_current_time", [name |-> "get_current_time", description |-> "Get the current date and time"]),
        "generate_random", [name |-> "generate_random", description |-> "Generate random numbers or strings"])
BuiltInHandlers ==
    RegisterInto(RegisterInto(RegisterInto(<<>>,
        "calculate", "calculate"),
        "get_current_time", "get_current_time"),
        "generate_random", "generate_random")

\* getTools: Array.from(this.tools.values()).map(func => ({type: 'function', function: func}))
GetTools(ts) == [i \in 1..Len(ts) |-> [type |-> "function", function |-> ts[i].value]]

----------------------------------------------------------------------------
(* The argument text of an invocation and JSON.parse.  The text is a        *)
(* sequence of tokens: the structural characters, a quoted key as one       *)
(* token, and the characters of strings and numbers one by one.             *)

Quote == "\""
\* a quoted key token, and the property name it spells
Keys == {"\"expression\"", "\"timezone\"", "\"type\"", "\"min\"", "\"max\"", "\"length\""}
KeyName(token) ==
    CASE token = "\"expression\"" -> "expression"
      [] token = "\"timezone\"" -> "timezone"
      [] token = "\"type\"" -> "type"
      [] token = "\"min\"" -> "min"
      [] token = "\"max\"" -> "max"
      [] token = "\"length\"" -> "length"

\* a parsed JSON value; props is the object's key -> value map
JNull == [kind |-> "null", str |-> <<>>, num |-> 0, props |-> <<>>]
JUndefined == [kind |-> "undefined", str |-> <<>>, num |-> 0, props |-> <<>>]
JArray == [kind |-> "array", str |-> <<>>, num |-> 0, props |-> <<>>]
JString(cs) == [kind |-> "string", str |-> cs, num |-> 0, props |-> <<>>]
JNumber(n) == [kind |-> "number", str |-> <<>>, num |-> n, props |-> <<>>]
JObject(ps) == [kind |-> "object", str |-> <<>>, num |-> 0, props |-> ps]
JSyntaxError == [kind |-> "error", str |-> <<>>, num |-> 0, props |-> <<>>]

\* the scalar JSON value that starts at text[i], and the index after it.
\* A number is a whole number here, with no leading zero.
ParseScalar(text, i) ==
    IF i > Len(text) THEN [v |-> JSyntaxError, next |-> 0]
    ELSE IF text[i] = "null" THEN [v |-> JNull, next |-> i + 1]
    ELSE IF text[i] = "-"
    THEN IF i + 1 > Len(text) \/ text[i + 1] \notin Digits THEN [v |-> JSyntaxError, next |-> 0]
         ELSE LET j == SkipDigits(text, i + 1)
              IN  IF text[i + 1] = "0" /\ j > i + 2 THEN [v |-> JSyntaxError, next |-> 0]
                  ELSE [v |-> JNumber(-DigitsVal(SubSeq(text, i + 1, j - 1), 10)), next |-> j]
    ELSE IF text[i] \in Digits
    THEN LET j == SkipDigits(text, i)
         IN  IF text[i] = "0" /\ j > i + 1 THEN [v |-> JSyntaxError, next |-> 0]
             ELSE [v |-> JNumber(DigitsVal(SubSeq(text, i, j - 1), 10)), next |-> j]
    ELSE IF text[i] = Quote
    THEN IF \E j \in (i + 1)..Len(text) : text[j] = Quote
         THEN LET j == CHOOSE k \in (i + 1)..Len(text) :
                          text[k] = Quote /\ \A m \in (i + 1)..(k - 1) : text[m] # Quote
              IN  [v |-> JString(SubSeq(text, i + 1, j - 1)), next |-> j + 1]
         ELSE [v |-> JSyntaxError, next |-> 0]
    ELSE [v |-> JSyntaxError, next |-> 0]

\* the members of an object from text[i] on, added to props; a later key wins
RECURSIVE ParseMembers(_, _, _)
ParseMembers(text, i, props) ==
    IF i + 1 > Len(text) \/ text[i] \notin Keys \/ text[i + 1] # ":" THEN JSyntaxError
    ELSE LET m == ParseScalar(text, i + 2)
             ps == [k \in DOMAIN props \cup {KeyName(text[i])} |->
                       IF k = KeyName(text[i]) THEN m.v ELSE props[k]]
         IN  IF m.v.kind = "error" THEN JSyntaxError
             ELSE IF m.next = Len(text) /\ text[m.next] = "}" THEN JObject(ps)
             ELSE IF m.next < Len(text) /\ text[m.next] = "," THEN ParseMembers(text, m.next + 1, ps)
             ELSE JSyntaxError

\* JSON.parse(toolCall.function.arguments)
ParseArguments(text) ==
    IF text = <<>> THEN JSyntaxError
    ELSE IF text = <<"{", "}">> THEN JObject(<<>>)
    ELSE IF text = <<"[", "]">> THEN JArray
    ELSE IF text[1] = "{" THEN ParseMembers(text, 2, <<>>)
    ELSE LET m == ParseScalar(text, 1)
         IN  IF m.v.kind # "error" /\ m.next = Len(text) + 1 THEN m.v ELSE JSyntaxError

\* args.key: undefined for a missing key and for a value that has no such property
Prop(args, key) ==
    IF args.kind = "object" /\ key \in DOMAIN args.props THEN args.props[key] ELSE JUndefined

\* a property of null or undefined cannot be read: TypeError
PropThrows(args) == args.kind \in {"null", "undefined"}

\* JavaScript truthiness of a parsed value
Truthy(v) ==
    CASE v.kind \in {"null", "undefined"} -> FALSE
      [] v.kind = "number" -> v.num # 0
      [] v.kind = "string" -> v.str # <<>>
      [] OTHER -> TRUE

----------------------------------------------------------------------------
(* The built-in handlers.  A handler's outcome is what it returns           *)
(* (threw = FALSE) or the error it throws (threw = TRUE).                   *)

Text(prefix, body) == [prefix |-> prefix, body |-> body]
Returns(prefix, body) == [threw |-> FALSE, content |-> Text(prefix, body)]
Throws(error) == [threw |-> TRUE, content |-> Text("", <<error>>)]

RECURSIVE NatText(_)
NatText(n) ==
    LET d == CHOOSE c \in Digits : DigitVal(c) = n % 10
    IN  IF n < 10 THEN <<d>> ELSE Append(NatText(n \div 10), d)

\* `${value}`: the decimal digits of a whole number; for a fraction the model
\* writes the exact ratio where the program prints the digits of the double
ValueText(v) ==
    CASE v.kind = "undefined" -> <<"undefined">>
      [] v.kind = "untracked" -> <<"Infinity|NaN">>
      [] v.kind = "regexp" -> <<"RegExp">>
      [] v.kind = "error" -> <<"Error: Invalid mathematical expression">>
      [] v.kind = "num" /\ v.d = 1 ->
            IF v.n < 0 THEN <<"-">> \o NatText(-v.n) ELSE NatText(v.n)
      [] OTHER ->
            (IF v.n < 0 THEN <<"-">> ELSE <<>>) \o NatText(Abs(v.n)) \o <<":">> \o NatText(v.d)

\* the calculator: try { `Result: ${evaluateMathExpression(args.expression)}` }
\* catch (error) { `Error: ${error}` }
Calculate(args) ==
    IF PropThrows(args) \/ Prop(args, "expression").kind # "string"
    THEN Returns("Error: ", <<"TypeError">>)
    ELSE LET v == EvaluateMathExpression(Prop(args, "expression").str)
         IN  IF v.kind = "error" THEN Returns("Error: ", ValueText(v))
             ELSE IF v.kind = "regexp" THEN Returns("Result: |Error: ", ValueText(v))
             ELSE Returns("Result: ", ValueText(v))

\* the time zones Intl accepts, among those the model sends
ValidTimeZones == {<<"U", "T", "C">>}

\* the clock tool: an unknown time zone makes toLocaleString throw a RangeError
GetCurrentTime(args) ==
    IF PropThrows(args) THEN Throws("TypeError")
    ELSE LET tz == Prop(args, "timezone")
         IN  IF ~Truthy(tz) THEN Returns("", <<"local time">>)
             ELSE IF tz.kind = "string" /\ tz.str \in ValidTimeZones
             THEN Returns("", <<"time in ">> \o tz.str)
             ELSE Returns("Invalid timezone. Current UTC time: ", <<"ISO time">>)

\* v || fallback for a number argument
OrNumber(v, fallback) == IF Truthy(v) /\ v.kind = "number" THEN v.num ELSE fallback

\* the random tool; rnd is what Math.random() returns, in hundredths
GenerateRandom(args, rnd) ==
    IF PropThrows(args) THEN Throws("TypeError")
    ELSE LET type == Prop(args, "type")
             min == OrNumber(Prop(args, "min"), 0)
             max == OrNumber(Prop(args, "max"), 100)
             length == OrNumber(Prop(args, "length"), 10)
         IN  IF type.kind = "string" /\ type.str = <<"n", "u", "m", "b", "e", "r">>
             THEN Returns("Random number: ", ValueText(Num(rnd * (max - min) + 100 * min, 100)))
             ELSE IF type.kind = "string" /\ type.str = <<"s", "t", "r", "i", "n", "g">>
             THEN Returns("Random string: ", [i \in 1..length |-> "A"])
             ELSE IF type.kind = "string" /\ type.str = <<"u", "u", "i", "d">>
             THEN Returns("UUID: ", <<"xxxxxxxx-xxxx-4xxx-yxxx-xxxxxxxxxxxx">>)
             ELSE Returns("Invalid type specified", <<>>)

\* handler(args) for the handlers the model registers
RunHandler(h, args, rnd) ==
    CASE h = "calculate" -> Calculate(args)
      [] h = "get_current_time" -> GetCurrentTime(args)
      [] h = "generate_random" -> GenerateRandom(args, rnd)
      [] h = "custom_ok" -> Returns("ok", <<>>)
      [] h = "custom_throws" -> Throws("Error: boom")

----------------------------------------------------------------------------
(* ToolManager.executeTool and registerTool *)

ToolResponse(content, id) == [role |-> "tool", content |-> content, tool_call_id |-> id]
Returned(r) == [raised |-> FALSE, response |-> r]

\* a slip: JSON.parse and the handler run outside the try block
ExecuteToolUnguarded(hs, call, rnd) ==
    IF ~MapHas(hs, call.name)
    THEN Returned(ToolResponse(Text("Error: Unknown tool ", <<Quote, call.name, Quote>>), call.id))
    ELSE LET args == ParseArguments(call.arguments)
             out == RunHandler(MapGet(hs, call.name), args, rnd)
         IN  IF args.kind = "error" \/ out.threw
             THEN [raised |-> TRUE, response |-> ToolResponse(Text("", <<>>), "")]
             ELSE Returned(ToolResponse(out.content, call.id))

\* a slip: the catch block drops the error it caught
ExecuteToolDropsError(hs, call, rnd) ==
    IF ~MapHas(hs, call.name)
    THEN Returned(ToolResponse(Text("Error: Unknown tool ", <<Quote, call.name, Quote>>), call.id))
    ELSE LET args == ParseArguments(call.arguments)
             out == RunHandler(MapGet(hs, call.name), args, rnd)
         IN  IF args.kind = "error" \/ out.threw
             THEN Returned(ToolResponse(Text("Error executing tool: ", <<>>), call.id))
             ELSE Returned(ToolResponse(out.content, call.id))

\* executeTool(toolCall) on the handlers map hs
ExecuteToolResult(hs, call, rnd) ==
    IF ~MapHas(hs, call.name)
    THEN Returned(ToolResponse(Text("Error: Unknown tool ", <<Quote, call.name, Quote>>), call.id))
    ELSE LET args == ParseArguments(call.arguments)
         IN  IF args.kind = "error"
             THEN Returned(ToolResponse(Text("Error executing tool: ", <<"SyntaxError">>), call.id))
             ELSE LET out == RunHandler(MapGet(hs, call.name), args, rnd)
                  IN  IF out.threw
                      THEN Returned(ToolResponse(Text("Error executing tool: ", out.content.body), call.id))
                      ELSE Returned(ToolResponse(out.content, call.id))

\* the text evaluateMathExpression compiles during executeTool(call): none
\* unless the calculator runs on an argument object with a string expression
EvaluatedText(hs, call) ==
    IF ~MapHas(hs, call.name) \/ MapGet(hs, call.name) # "calculate" THEN <<>>
    ELSE LET args == ParseArguments(call.arguments)
         IN  IF args.kind = "error" \/ PropThrows(args) \/ Prop(args, "expression").kind # "string"
             THEN <<>>
             ELSE <<Sanitize(Prop(args, "expression").str)>>

\* the values Math.random() takes in the model, in hundredths
RandomUnits == {0, 99}

\* one call of executeTool
ExecuteTool(call, rnd) ==
    /\ LET r == ExecuteToolResult(handlers, call, rnd)
       IN  /\ raised' = r.raised
           /\ lastResult' = <<r.response>>
    /\ lastCall' = <<call>>
    /\ evaluated' = EvaluatedText(handlers, call)
    /\ UNCHANGED <<tools, handlers, expression, registrations, lastRegistered>>
    /\ UNCHANGED <<engineVars, streamVars, delivered>>

\* registerTool(tool, handler)
RegisterTool(tool, handler) ==
    /\ registrations < MaxRegistrations
    /\ registrations' = registrations + 1
    /\ tools' = RegisterInto(tools, tool.name, tool)
    /\ handlers' = RegisterInto(handlers, tool.name, handler)
    /\ lastRegistered' = <<[tool |-> tool, handler |-> handler]>>
    /\ UNCHANGED <<expression, lastCall, lastResult, raised, evaluated>>
    /\ UNCHANGED <<engineVars, streamVars, delivered>>

----------------------------------------------------------------------------
(* Session files.  The text of a file is a sequence of tokens: the          *)
(* structural characters, a key with its quotes and colon as one token, and *)
(* the characters of a string one by one.  JSON.stringify(data, null, 2)    *)
(* also writes line breaks and indentation between the tokens, which        *)
(* JSON.parse skips; they are left out.                                     *)

Backslash == "\\"
KId == "\"id\":"
KDate == "\"date\":"
KMessages == "\"messages\":"
KRole == "\"role\":"
KContent == "\"content\":"
FileKeys == {KId, KDate, KMessages, KRole, KContent}
FileKeyName(token) ==
    CASE token = KId -> "id"
      [] token = KDate -> "date"
      [] token = KMessages -> "messages"
      [] token = KRole -> "role"
      [] token = KContent -> "content"

\* a slip: the quotation mark and the backslash are written as they are
EscapeOnlyNewline(c) == IF c = LF THEN <<Backslash, "n">> ELSE <<c>>

\* the characters JSON.stringify writes for one character of a string
Escape(c) ==
    CASE c = Quote -> <<Backslash, Quote>>
      [] c = Backslash -> <<Backslash, Backslash>>
      [] c = LF -> <<Backslash, "n">>
      [] OTHER -> <<c>>

\* JSON.stringify of a string
StringifyString(cs) == <<Quote>> \o Concat([i \in 1..Len(cs) |-> Escape(cs[i])]) \o <<Quote>>

\* JSON.stringify of one turn {role, content}
StringifyMessage(m) ==
    <<"{", KRole>> \o StringifyString(<<m.role>>) \o <<",", KContent>>
        \o StringifyString(m.content) \o <<"}">>

\* JSON.stringify({id, date, messages}, null, 2); the date is the clock
\* reading in digits, an id that is undefined is left out, and so is the
\* white space of the indentation, which JSON.parse skips
StringifySession(id, date, msgs) ==
    <<"{">> \o (IF id = "undefined" THEN <<>> ELSE <<KId>> \o StringifyString(<<id>>) \o <<",">>)
        \o <<KDate>> \o StringifyString(NatText(date))
        \o <<",", KMessages, "[">>
        \o Join([i \in 1..Len(msgs) |-> StringifyMessage(msgs[i])], ",")
        \o <<"]", "}">>

\* a parsed JSON array
JList(items) == [kind |-> "list", str |-> <<>>, num |-> 0, props |-> <<>>, items |-> items]

\* the number of backslashes that stand in a row right before text[k], from
\* text[i] on
BackslashesBefore(text, i, k) ==
    Cardinality({m \in i..(k - 1) : \A n \in m..(k - 1) : text[n] = Backslash})

\* text[k] is a backslash that starts an escape: an even number of
\* backslashes stands before it
StartsEscape(text, i, k) == text[k] = Backslash /\ BackslashesBefore(text, i, k) % 2 = 0

\* the least element of a set of indices, 0 for the empty set
Least(at) == IF at = {} THEN 0 ELSE CHOOSE k \in at : \A m \in at : k <= m

\* the index of the quotation mark that closes the string whose body starts at
\* text[i], 0 when there is none; a backslash takes the character after it
StringEnd(text, i) ==
    Least({k \in i..Len(text) : text[k] = Quote /\ BackslashesBefore(text, i, k) % 2 = 0})

\* the character text[k] of a string body spells: itself, or what the escape
\* it ends stands for
Spelled(body, k) ==
    IF k > 1 /\ StartsEscape(body, 1, k - 1) /\ body[k] = "n" THEN LF ELSE body[k]
SpelledAt(body, at) == [n \in 1..Len(at) |-> Spelled(body, at[n])]

\* the characters a string body spells; ok = FALSE on a line break, which a
\* JSON string cannot hold, and on an escape JSON has not
Unescape(body) ==
    [ok |-> \A k \in 1..Len(body) :
                /\ body[k] # LF
                /\ StartsEscape(body, 1, k)
                      => k < Len(body) /\ body[k + 1] \in {Quote, Backslash, "/", "n"},
     str |-> SpelledAt(body, SelectSeq([k \in 1..Len(body) |-> k],
                                       LAMBDA k : ~StartsEscape(body, 1, k)))]

JFail == [v |-> JSyntaxError, next |-> 0]

\* the JSON grammar over these tokens.  ParseJSON(rule, text, i, acc): the
\* rule applied at text[i].  "string" takes in acc the index of the closing
\* quotation mark; "elements" and "members" take what they have read so far,
\* and "element" and "member" the value just read as well.
RECURSIVE ParseJSON(_, _, _, _)
ParseJSON(rule, text, i, acc) ==
    IF i > Len(text) THEN JFail
    ELSE CASE rule = "value" ->
             IF text[i] = "null" THEN [v |-> JNull, next |-> i + 1]
             ELSE IF text[i] = Quote THEN ParseJSON("string", text, i, StringEnd(text, i + 1))
             ELSE IF text[i] = "["
             THEN IF i < Len(text) /\ text[i + 1] = "]" THEN [v |-> JList(<<>>), next |-> i + 2]
                  ELSE ParseJSON("elements", text, i + 1, <<>>)
             ELSE IF text[i] = "{"
             THEN IF i < Len(text) /\ text[i + 1] = "}" THEN [v |-> JObject(<<>>), next |-> i + 2]
                  ELSE ParseJSON("members", text, i + 1, <<>>)
             ELSE JFail
           [] rule = "string" ->
             IF acc = 0 \/ ~Unescape(SubSeq(text, i + 1, acc - 1)).ok THEN JFail
             ELSE [v |-> JString(Unescape(SubSeq(text, i + 1, acc - 1)).str), next |-> acc + 1]
           [] rule = "elements" ->
             ParseJSON("element", text, i, [read |-> acc, m |-> ParseJSON("value", text, i, <<>>)])
           [] rule = "element" ->
             IF acc.m.next = 0 \/ acc.m.next > Len(text) THEN JFail
             ELSE IF text[acc.m.next] = ","
             THEN ParseJSON("elements", text, acc.m.next + 1, Append(acc.read, acc.m.v))
             ELSE IF text[acc.m.next] = "]"
             THEN [v |-> JList(Append(acc.read, acc.m.v)), next |-> acc.m.next + 1]
             ELSE JFail
           [] rule = "members" ->
             IF text[i] \notin FileKeys THEN JFail
             ELSE ParseJSON("member", text, i, [read |-> acc, m |-> ParseJSON("value", text, i + 1, <<>>)])
           [] rule = "member" ->
             IF acc.m.next = 0 \/ acc.m.next > Len(text) THEN JFail
             ELSE IF text[acc.m.next] = ","
             THEN ParseJSON("members", text, acc.m.next + 1,
                            [k \in DOMAIN acc.read \cup {FileKeyName(text[i])} |->
                                IF k = FileKeyName(text[i]) THEN acc.m.v ELSE acc.read[k]])
             ELSE IF text[acc.m.next] = "}"
             THEN [v |-> JObject([k \in DOMAIN acc.read \cup {FileKeyName(text[i])} |->
                                     IF k = FileKeyName(text[i]) THEN acc.m.v ELSE acc.read[k]]),
                   next |-> acc.m.next + 1]
             ELSE JFail

\* JSON.parse throws unless the value ends where the text ends
Complete(m, len) == IF m.next = len + 1 THEN m.v ELSE JSyntaxError

\* JSON.parse(data) for the text of a file
ParseFile(text) == Complete(ParseJSON("value", text, 1, <<>>), Len(text))

\* the transcript a parsed messages array is, for an array of {role, content}
Turns(v) ==
    IF v.kind = "list"
    THEN [i \in 1..Len(v.items) |->
            [role |-> Prop(v.items[i], "role").str[1], content |-> Prop(v.items[i], "content").str]]
    ELSE <<>>

\* `${id}` for a parsed id
IdText(v) == IF v.kind = "string" /\ v.str # <<>> THEN v.str[1] ELSE v.kind

\* loadSession throws "Failed to load session"
LoadFailed == [threw |-> TRUE, messages |-> JUndefined, id |-> JUndefined]

\* a slip: data that lacks the id or the messages is rejected
AssignValidated(data) ==
    IF data.kind # "object" \/ Prop(data, "messages").kind # "list" \/ Prop(data, "id").kind # "string"
    THEN LoadFailed
    ELSE [threw |-> FALSE, messages |-> Prop(data, "messages"), id |-> Prop(data, "id")]

\* the assignments of loadSession after JSON.parse: this.messages =
\* sessionData.messages; this.sessionId = sessionData.id.  A property of null
\* cannot be read.
Assign(data) ==
    IF data.kind = "error" \/ PropThrows(data) THEN LoadFailed
    ELSE [threw |-> FALSE, messages |-> Prop(data, "messages"), id |-> Prop(data, "id")]

\* loadSession(id): threw = TRUE when readFile or JSON.parse throws or the
\* data is null; else the values it assigns to this.messages and this.sessionId
LoadSession(st, id) == IF id \notin DOMAIN st THEN LoadFailed ELSE Assign(ParseFile(st[id]))

\* new Date(date).getTime() for a date the model wrote; -1 stands for NaN
GetTime(v) ==
    IF v.kind = "string" /\ v.str # <<>> /\ \A i \in 1..Len(v.str) : v.str[i] \in Digits
    THEN DigitsVal(v.str, 10) ELSE -1

\* the order in which readdir lists the files; with dates that all differ
\* the sorted list does not depend on it
FileNames == <<"s0", "s1", "s2", "s3", "undefined">>
ReadDir(st) == SelectSeq(FileNames, LAMBDA f : f \in DOMAIN st)

\* Array.prototype.sort((a, b) => time(b) - time(a)): a stable sort, latest first
RECURSIVE SortByDate(_)
SortByDate(ss) ==
    IF ss = <<>> THEN <<>>
    ELSE LET rest == SortByDate(Front(ss))
             x == Last(ss)
             k == Cardinality({i \in 1..Len(rest) : rest[i].time >= x.time})
         IN  SubSeq(rest, 1, k) \o <<x>> \o SubSeq(rest, k + 1, Len(rest))

\* what the loop of listSessions pushes for parsed data; threw = TRUE when
\* JSON.parse threw or sessionData.messages.length cannot be read
Summary(data) ==
    IF data.kind = "error" \/ PropThrows(data) \/ PropThrows(Prop(data, "messages"))
    THEN [threw |-> TRUE, id |-> "", time |-> 0, messageCount |-> 0]
    ELSE [threw |-> FALSE, id |-> IdText(Prop(data, "id")), time |-> GetTime(Prop(data, "date")),
          messageCount |-> IF Prop(data, "messages").kind = "list"
                           THEN Len(Prop(data, "messages").items) ELSE 0]

\* the loop of listSessions over the files readdir lists
Summaries(st, files) == [i \in 1..Len(files) |-> Summary(ParseFile(st[files[i]]))]

\* a slip: a file that cannot be summarized is skipped
SortedSkippingCorrupt(all) == SortByDate(SelectSeq(all, LAMBDA x : ~x.threw))

\* a slip: the list is left in the order of the directory
Unsorted(all) == IF \E i \in 1..Len(all) : all[i].threw THEN <<>> ELSE all

\* the end of listSessions: the catch returns [] when a file threw, else the
\* summaries are sorted
Sorted(all) == IF \E i \in 1..Len(all) : all[i].threw THEN <<>> ELSE SortByDate(all)

\* listSessions: readable = FALSE when readdir throws
ListSessions(st, readable) == IF ~readable THEN <<>> ELSE Sorted(Summaries(st, ReadDir(st)))

----------------------------------------------------------------------------
(* The chat engine *)

UserInputs == {<<"h", "i">>, <<"2", "+", "2">>}

DefaultConfig == [model |-> "llama3.1-8b", maxTokens |-> 1024, temperature |-> 7,
                  conversationHistory |-> TRUE, theme |-> "colorful"]

\* config.get(key) || fallback: a falsy number is 0, a falsy string is ''
OrDefaultNum(v, fallback) == IF v = 0 THEN fallback ELSE v
OrDefaultStr(v, fallback) == IF v = "" THEN fallback ELSE v

\* the request object sendMessage passes to streamChatCompletion
BuildRequest(msgs, cfg) ==
    [model |-> OrDefaultStr(cfg.model, "llama3.1-8b"),
     messages |-> msgs,
     temperature |-> OrDefaultNum(cfg.temperature, 7),
     max_tokens |-> OrDefaultNum(cfg.maxTokens, 1024),
     stream |-> TRUE]

\* a slip: the new turn is put in front
PushInFront(msgs, message) == <<message>> \o msgs

\* addMessage: this.messages.push(message)
Push(msgs, message) == Append(msgs, message)

\* a slip: the session is written without its last turn
SaveSessionStale(st, id, msgs, cfg, date) ==
    IF ~cfg.conversationHistory THEN st
    ELSE [i \in DOMAIN st \cup {id} |->
            IF i = id THEN StringifySession(id, date, Front(msgs)) ELSE st[i]]

\* a slip: the session is written whatever the configuration says
SaveSessionAlways(st, id, msgs, cfg, date) ==
    [i \in DOMAIN st \cup {id} |-> IF i = id THEN StringifySession(id, date, msgs) ELSE st[i]]

\* ConversationManager.saveSession, with the reading of the clock
SaveSession(st, id, msgs, cfg, date) ==
    IF ~cfg.conversationHistory THEN st
    ELSE [i \in DOMAIN st \cup {id} |-> IF i = id THEN StringifySession(id, date, msgs) ELSE st[i]]

\* a slip: the loop does not await the exchange before it reads the next line
SendMessageNotAwaited(content) ==
    /\ pc \in {"idle", "streaming"}
    /\ isRunning
    /\ sends < MaxSends
    /\ sends' = sends + 1
    /\ messages' = Append(messages, [role |-> "user", content |-> content])
    /\ request' = <<BuildRequest(messages', config)>>
    /\ pc' = "posting"
    /\ fullResponse' = <<>>
    /\ surfaced' = <<>>
    /\ parsed' = <<>>
    /\ wire' = <<>>
    /\ buffer' = <<>>
    /\ streamOpen' = FALSE
    /\ promise' = "none"
    /\ outcome' = "pending"
    /\ UNCHANGED <<sessionId, store, config, isRunning, errors, delivered, toolVars>>
    /\ UNCHANGED <<display, commands, sessionVars>>

\* sendMessage up to the await of client.post
SendMessage(content) ==
    /\ pc = "idle"
    /\ isRunning
    /\ sends < MaxSends
    /\ sends' = sends + 1
    /\ messages' = Push(messages, [role |-> "user", content |-> content])
    /\ request' = <<BuildRequest(messages', config)>>
    /\ pc' = "posting"
    /\ fullResponse' = <<>>
    /\ surfaced' = <<>>
    /\ parsed' = <<>>
    /\ wire' = <<>>
    /\ buffer' = <<>>
    /\ streamOpen' = FALSE
    /\ promise' = "none"
    /\ outcome' = "pending"
    /\ UNCHANGED <<sessionId, store, config, isRunning, errors, delivered, toolVars>>
    /\ UNCHANGED <<display, commands, sessionVars>>

\* client.post answers with a response stream
PostOk ==
    /\ pc = "posting"
    /\ pc' = "streaming"
    /\ buffer' = <<>>
    /\ streamOpen' = TRUE
    /\ promise' = "pending"
    /\ UNCHANGED <<messages, sessionId, store, config, isRunning, errors, outcome, request, sends>>
    /\ UNCHANGED <<fullResponse, surfaced, parsed, wire, delivered, toolVars>>
    /\ UNCHANGED <<display, commands, sessionVars>>

\* client.post throws; streamChatCompletion rethrows; sendMessage's catch reports it
PostFail ==
    /\ pc = "posting"
    /\ pc' = "idle"
    /\ errors' = errors + 1
    /\ outcome' = "failed"
    /\ UNCHANGED <<messages, sessionId, store, config, isRunning, request, sends>>
    /\ UNCHANGED <<streamVars, delivered, toolVars, display, commands, sessionVars>>

\* the assistant turn sendMessage appends after the await
AssistantTurn(full) == [role |-> "assistant", content |-> full]

\* sendMessage after the await returned: append the answer, auto-save
Commit(ioOk) ==
    /\ pc = "streaming"
    /\ promise = "resolved"
    /\ messages' = Push(messages, AssistantTurn(fullResponse))
    /\ IF config.conversationHistory /\ ~ioOk
       THEN /\ errors' = errors + 1
            /\ outcome' = "saveFailed"
            /\ store' = store
       ELSE /\ errors' = errors
            /\ outcome' = "ok"
            /\ store' = SaveSession(store, sessionId, messages', config, now)
    /\ now' = IF config.conversationHistory THEN now + 1 ELSE now
    /\ pc' = "idle"
    /\ UNCHANGED <<sessionId, config, isRunning, request, sends>>
    /\ UNCHANGED <<streamVars, delivered, toolVars, display, commands>>
    /\ UNCHANGED <<listed, found, offered, exitCode, engines, called>>

\* a slip: the catch block commits what was received before the failure
CatchCommitsPartial ==
    /\ pc = "streaming"
    /\ promise = "rejected"
    /\ pc' = "idle"
    /\ errors' = errors + 1
    /\ outcome' = "failed"
    /\ messages' = Append(messages, [role |-> "assistant", content |-> fullResponse])
    /\ UNCHANGED <<sessionId, store, config, isRunning, request, sends>>
    /\ UNCHANGED <<streamVars, delivered, toolVars, display, commands, sessionVars>>

\* sendMessage's catch block after the await threw
Catch ==
    /\ pc = "streaming"
    /\ promise = "rejected"
    /\ pc' = "idle"
    /\ errors' = errors + 1
    /\ outcome' = "failed"
    /\ UNCHANGED <<messages, sessionId, store, config, isRunning, request, sends>>
    /\ UNCHANGED <<streamVars, delivered, toolVars, display, commands, sessionVars>>

----------------------------------------------------------------------------
(* Commands.  An input line is a sequence of tokens: "/", the command word  *)
(* as one token, " ", and the argument character by character (a model or   *)
(* theme name, or a word of a prompt, is one token).                         *)

\* the capital I with a dot above, U+0130, whose lower case is two characters
IDot == "I-dot"

\* the lower case of one token: of the command words and letters the model types
LowerCaseOf(c) ==
    CASE c = "TEMP" -> <<"temp">>
      [] c = "Theme" -> <<"theme">>
      [] c = "X" -> <<"x">>
      [] c = "H" -> <<"h">>
      [] c = IDot -> <<"i", "dot-above">>
      [] OTHER -> <<c>>

\* String.prototype.toLowerCase
ToLowerCase(text) == Concat([i \in 1..Len(text) |-> LowerCaseOf(text[i])])

\* const [cmd, ...args] = command.slice(1).split(' '); const arg = args.join(' ')
Cmd(command) == Split(Tail(command), " ")[1]
Arg(command) == Join(Tail(Split(Tail(command), " ")), " ")

\* the case labels of the switch in handleCommand
KnownCommands ==
    {"help", "clear", "save", "history", "copy", "model", "system", "temp", "temperature",
     "tokens", "maxtokens", "theme", "file", "read", "export", "search", "exit", "quit"}

\* the case label a command word selects, or "default"
CaseOf(cmd) ==
    IF Len(ToLowerCase(cmd)) = 1 /\ ToLowerCase(cmd)[1] \in KnownCommands
    THEN ToLowerCase(cmd)[1] ELSE "default"

\* the white space parseFloat and parseInt skip
SkipSpaces(text) ==
    IF \E i \in 1..Len(text) : text[i] # " "
    THEN SubSeq(text, CHOOSE i \in 1..Len(text) : text[i] # " " /\ \A j \in 1..(i - 1) : text[j] = " ",
                Len(text))
    ELSE <<>>

NaN == [nan |-> TRUE, value |-> 0]
Number(v) == [nan |-> FALSE, value |-> v]

\* parseInt(text): the longest prefix that is an optionally signed run of
\* decimal digits, NaN when there is none
ParseInt(text) ==
    LET t == SkipSpaces(text)
        negative == t # <<>> /\ t[1] = "-"
        u == IF t # <<>> /\ t[1] \in {"-", "+"} THEN Tail(t) ELSE t
        j == SkipDigits(u, 1)
    IN  IF j = 1 THEN NaN
        ELSE Number((IF negative THEN -1 ELSE 1) * DigitsVal(SubSeq(u, 1, j - 1), 10))

\* parseFloat(text) in tenths: the longest prefix that is an optionally signed
\* decimal literal, NaN when there is none.  The arguments of the model carry
\* at most one digit after the point.
ParseFloat(text) ==
    LET t == SkipSpaces(text)
        negative == t # <<>> /\ t[1] = "-"
        u == IF t # <<>> /\ t[1] \in {"-", "+"} THEN Tail(t) ELSE t
        j == SkipDigits(u, 1)
        whole == IF j = 1 THEN 0 ELSE DigitsVal(SubSeq(u, 1, j - 1), 10)
        point == j <= Len(u) /\ u[j] = "."
        k == IF point THEN SkipDigits(u, j + 1) ELSE j
        tenth == IF point /\ k > j + 1 THEN DigitVal(u[j + 1]) ELSE 0
    IN  IF j = 1 /\ ~(point /\ k > j + 1) THEN NaN
        ELSE Number((IF negative THEN -1 ELSE 1) * (10 * whole + tenth))

\* a name typed as one token
TextOf(arg) == arg[1]

ValidThemes == {<<"default">>, <<"dark">>, <<"light">>, <<"colorful">>}

\* the models GET /models lists
AvailableModels == {"llama3.1-8b", "llama-3.3-70b"}
\* the answers a command can get: "failed" when the models cannot be fetched,
\* else the model picked from the list
Answers == {"failed"} \cup AvailableModels

\* what a command leaves behind: the configuration, the transcript, and the
\* message it displays (displaySuccess, displayInfo, displayWarning, displayError)
Effect(cfg, msgs, kind, text) ==
    [config |-> cfg, messages |-> msgs, display |-> [kind |-> kind, text |-> text]]

\* a slip: the models are listed and nothing is stored
ShowModelsOnlyLists(answer) ==
    IF answer = "failed" THEN Effect(config, messages, "error", "Failed to fetch models")
    ELSE Effect(config, messages, "info", "Select a model")

\* showModels: fetch the list, let the user pick, store the pick
ShowModels(answer) ==
    IF answer = "failed" THEN Effect(config, messages, "error", "Failed to fetch models")
    ELSE Effect([config EXCEPT !.model = answer], messages, "success", "Model changed to")

\* a slip: an unknown command is sent to the model as a message
UnknownCommandIsSent(command) ==
    Effect(config, Append(messages, [role |-> "user", content |-> command]),
           "warning", "Unknown command")

\* the default case of the switch
UnknownCommand(command) == Effect(config, messages, "warning", "Unknown command")

\* what the selected case does with the argument
CommandEffect(command, answer) ==
    LET case == CaseOf(Cmd(command))
        arg == Arg(command)
    IN  CASE case = "help" -> Effect(config, messages, "info", "Available Commands")
          [] case = "clear" -> Effect(config, <<>>, "success", "Conversation cleared")
          [] case = "model" ->
                IF arg # <<>>
                THEN Effect([config EXCEPT !.model = TextOf(arg)], messages, "success", "Model changed to")
                ELSE ShowModels(answer)
          [] case = "system" ->
                IF arg # <<>>
                THEN Effect(config, <<[role |-> "system", content |-> arg]>>,
                            "success", "System prompt updated")
                ELSE Effect(config, messages, "warning", "Please provide a system prompt")
          [] case \in {"temp", "temperature"} ->
                IF arg = <<>> THEN Effect(config, messages, "info", "Current temperature")
                ELSE LET temp == ParseFloat(arg)
                     IN  IF ~temp.nan /\ temp.value >= 0 /\ temp.value <= 20
                         THEN Effect([config EXCEPT !.temperature = temp.value], messages,
                                     "success", "Temperature set to")
                         ELSE Effect(config, messages, "error", "Temperature must be between 0 and 2")
          [] case \in {"tokens", "maxtokens"} ->
                IF arg = <<>> THEN Effect(config, messages, "info", "Current max tokens")
                ELSE LET tokens == ParseInt(arg)
                     IN  IF ~tokens.nan /\ tokens.value > 0
                         THEN Effect([config EXCEPT !.maxTokens = tokens.value], messages,
                                     "success", "Max tokens set to")
                         ELSE Effect(config, messages, "error", "Max tokens must be a positive number")
          [] case = "theme" ->
                IF arg = <<>> THEN Effect(config, messages, "info", "Current theme")
                ELSE IF arg \in ValidThemes
                THEN Effect([config EXCEPT !.theme = TextOf(arg)], messages, "success", "Theme changed to")
                ELSE Effect(config, messages, "error", "Invalid theme")
          [] case = "default" -> UnknownCommand(command)

\* the cases of handleCommand that change nothing but the configuration and the
\* transcript; the others read and write files or end the program
ConfigurationCases ==
    {"help", "clear", "model", "system", "temp", "temperature", "tokens", "maxtokens",
     "theme", "default"}

\* handleUserInput on a line that starts with "/": handleCommand
HandleCommand(command, answer) ==
    /\ pc = "idle"
    /\ isRunning
    /\ commands < MaxCommands
    /\ command # <<>> /\ command[1] = "/"
    /\ CaseOf(Cmd(command)) \in ConfigurationCases
    /\ LET e == CommandEffect(command, answer)
       IN  /\ config' = e.config
           /\ messages' = e.messages
           /\ display' = e.display
           /\ errors' = IF e.display.kind = "error" THEN errors + 1 ELSE errors
    /\ commands' = commands + 1
    /\ UNCHANGED <<sessionId, store, isRunning, pc, outcome, request, sends>>
    /\ UNCHANGED <<streamVars, delivered, toolVars, sessionVars>>

----------------------------------------------------------------------------
(* Commands that read and write session files, and the exit path *)

\* String.prototype.indexOf(q), counted from 1; 0 when q does not occur
IndexOf(text, q) ==
    LET at == {i \in 1..(Len(text) - Len(q) + 1) : SubSeq(text, i, i + Len(q) - 1) = q}
    IN  IF at = {} THEN 0 ELSE CHOOSE i \in at : \A j \in at : i <= j

\* content.toLowerCase().includes(query.toLowerCase())
Matches(content, query) == IndexOf(ToLowerCase(content), ToLowerCase(query)) # 0

Min(a, b) == IF a < b THEN a ELSE b
Clamp(x, len) == IF x < 0 THEN 0 ELSE Min(x, len)

\* String.prototype.substring(a, b) with positions counted from 0: both are
\* clamped to the string and swapped when a > b
Substring(text, a, b) ==
    LET x == Clamp(a, Len(text))
        y == Clamp(b, Len(text))
    IN  SubSeq(text, Min(x, y) + 1, IF x > y THEN x ELSE y)

WhiteSpace == {" ", LF}
\* String.prototype.trim
RECURSIVE TrimStart(_)
TrimStart(text) == IF text # <<>> /\ Head(text) \in WhiteSpace THEN TrimStart(Tail(text)) ELSE text
RECURSIVE TrimEnd(_)
TrimEnd(text) == IF text # <<>> /\ Last(text) \in WhiteSpace THEN TrimEnd(Front(text)) ELSE text

Ellipsis == <<".", ".", ".">>
\* the default of extractSnippet's contextLength
ContextLength == 50

\* snippet = content.substring(start, end), with '...' on a side that was
\* cut, trimmed
Window(content, start, end) ==
    TrimEnd(TrimStart((IF start > 0 THEN Ellipsis ELSE <<>>) \o Substring(content, start, end)
                          \o (IF end < Len(content) THEN Ellipsis ELSE <<>>)))

\* a slip: the window is taken around the end of the text, not around the match
SnippetAtEnd(content, qlen, index) ==
    IF index = -1 THEN <<>>
    ELSE Window(content, IF Len(content) - ContextLength > 0 THEN Len(content) - ContextLength ELSE 0,
                Len(content))

\* extractSnippet after indexOf returned index, counted from 0
Snippet(content, qlen, index) ==
    IF index = -1 THEN <<>>
    ELSE Window(content, IF index - ContextLength > 0 THEN index - ContextLength ELSE 0,
                Min(Len(content), index + qlen + ContextLength))

\* extractSnippet(content, query)
ExtractSnippet(content, query) ==
    Snippet(content, Len(query), IndexOf(ToLowerCase(content), ToLowerCase(query)) - 1)

\* a slip: the turns are compared as they are, upper case apart from lower case
MatchesExactly(content, query) == IndexOf(content, query) # 0

\* `${msg.role}: ${snippet}` for the turns that match
Snippets(hits, query) ==
    [i \in 1..Len(hits) |-> [role |-> hits[i].role, snippet |-> ExtractSnippet(hits[i].content, query)]]

\* the matches of one loaded session, in the order of the transcript
MatchesOf(msgs, query) == Snippets(SelectSeq(msgs, LAMBDA m : Matches(m.content, query)), query)

\* matches.slice(0, 3)
MaxMatches == 3
\* a slip: every match is shown
SliceAll(ms) == ms
Slice(ms) == SubSeq(ms, 1, Min(Len(ms), MaxMatches))

\* results.push(...) when the session has matches
Results(results, session, ms) ==
    IF ms # <<>>
    THEN Append(results, [sessionId |-> session.id, time |-> session.time, matches |-> Slice(ms)])
    ELSE results

\* one round of the loop of searchConversations: r is what loadSession did.
\* When it threw the session is skipped; else the manager holds the loaded
\* transcript and id.
Visit(acc, session, r, query) ==
    IF r.threw THEN acc
    ELSE [results |-> Results(acc.results, session, MatchesOf(Turns(r.messages), query)),
          messages |-> Turns(r.messages), sessionId |-> IdText(r.id)]

\* the loop of searchConversations over the listed sessions: the results so
\* far, and the transcript and session id the loads leave in the manager
RECURSIVE SearchLoop(_, _, _, _)
SearchLoop(st, sessions, query, acc) ==
    IF sessions = <<>> THEN acc
    ELSE SearchLoop(st, Tail(sessions), query,
                    Visit(acc, Head(sessions), LoadSession(st, Head(sessions).id), query))

\* what a command of this section leaves in the conversation manager and on
\* the screen; thrown = TRUE when the handler throws into the loop's catch
Outcome(msgs, id, st, kind, text) ==
    [messages |-> msgs, sessionId |-> id, store |-> st, display |-> [kind |-> kind, text |-> text]]

\* the catch block of the loop in start, for an error that is no interrupt
AnErrorOccurred == Outcome(messages, sessionId, store, "error", "An error occurred")

\* the state a command of this section leaves, the process still running
Apply(o) ==
    /\ messages' = o.messages
    /\ sessionId' = o.sessionId
    /\ store' = o.store
    /\ display' = o.display
    /\ errors' = IF o.display.kind = "error" THEN errors + 1 ELSE errors
    /\ commands' = commands + 1
    /\ UNCHANGED <<config, isRunning, pc, outcome, request, sends>>
    /\ UNCHANGED <<streamVars, delivered, toolVars>>

AtPrompt(command, cases) ==
    /\ pc = "idle"
    /\ isRunning
    /\ commands < MaxCommands
    /\ command # <<>> /\ command[1] = "/"
    /\ CaseOf(Cmd(command)) \in cases

\* /save: saveSession, then displaySuccess; ioOk = FALSE when writeFile rejects
SaveCommand(command, ioOk) ==
    /\ AtPrompt(command, {"save"})
    /\ IF config.conversationHistory /\ ~ioOk
       THEN Apply(AnErrorOccurred)
       ELSE Apply(Outcome(messages, sessionId, SaveSession(store, sessionId, messages, config, now),
                          "success", "Conversation saved"))
    /\ now' = IF config.conversationHistory THEN now + 1 ELSE now
    /\ UNCHANGED <<listed, found, offered, exitCode, engines, called>>

\* a slip: the transcript is emptied before the file is read
LoadPickedAfterClear(r) ==
    IF r.threw THEN Apply(Outcome(<<>>, sessionId, store, "error", "An error occurred"))
    ELSE Apply(Outcome(Turns(r.messages), IdText(r.id), store, "success", "Conversation loaded"))

\* loadSession for the session the user picked: r is what it did.  When it
\* threw, the error leaves the handler for the catch of the loop.
LoadPicked(r) ==
    IF r.threw THEN Apply(AnErrorOccurred)
    ELSE Apply(Outcome(Turns(r.messages), IdText(r.id), store, "success", "Conversation loaded"))

\* showHistory after listSessions returned.  The list prompt, shown when the
\* list is not empty, is answered with "cancel" or the id of a listed session.
Listed(sessions) ==
    /\ listed' = sessions
    /\ IF sessions = <<>>
       THEN Apply(Outcome(messages, sessionId, store, "info", "No conversation history found"))
       ELSE \E choice \in {"cancel"} \cup {sessions[i].id : i \in 1..Len(sessions)} :
               IF choice = "cancel"
               THEN Apply(Outcome(messages, sessionId, store, "none", ""))
               ELSE LoadPicked(LoadSession(store, choice))

\* /history: showHistory
ShowHistory(command, readable) ==
    /\ AtPrompt(command, {"history"})
    /\ Listed(ListSessions(store, readable))
    /\ UNCHANGED <<now, found, offered, exitCode, engines, called>>

\* searchConversations after the loop: clear(), then the results.  When there
\* are results the user is asked whether to load one: the answer is "no" or
\* the id of the result picked.
Shown(end) ==
    /\ found' = end.results
    /\ IF end.results = <<>>
       THEN Apply(Outcome(<<>>, end.sessionId, store, "info", "No matches found"))
       ELSE \E answer \in {"no"} \cup {end.results[i].sessionId : i \in 1..Len(end.results)} :
               IF answer = "no"
               THEN Apply(Outcome(<<>>, end.sessionId, store, "results", "Found"))
               ELSE LoadPicked(LoadSession(store, answer))

\* searchConversations after listSessions returned
Searched(sessions, query) ==
    /\ listed' = sessions
    /\ IF sessions = <<>>
       THEN /\ found' = <<>>
            /\ Apply(Outcome(messages, sessionId, store, "info", "No conversation history to search"))
       ELSE Shown(SearchLoop(store, sessions, query,
                             [results |-> <<>>, messages |-> messages, sessionId |-> sessionId]))

\* /search: searchConversations, or the warning when there is no query
SearchConversations(command, readable) ==
    /\ AtPrompt(command, {"search"})
    /\ IF Arg(command) = <<>>
       THEN /\ Apply(Outcome(messages, sessionId, store, "warning", "Please provide a search query"))
            /\ UNCHANGED <<listed, found>>
       ELSE Searched(ListSessions(store, readable), Arg(command))
    /\ UNCHANGED <<now, offered, exitCode, engines, called>>

\* the answers to handleExit's confirm prompt; "interrupt" is Ctrl-C, on which
\* the prompt rejects with the force-closed error
SaveAnswers == {"yes", "no", "interrupt"}

\* process.exit(code)
Exit(code) ==
    /\ pc' = "exited"
    /\ exitCode' = code
    /\ streamOpen' = FALSE
    /\ UNCHANGED engines

\* /exit and /quit: handleExit called from handleCommand.  An error it throws
\* is caught by the loop in start.
ExitCommand(command, save, ioOk) ==
    /\ AtPrompt(command, {"exit", "quit"})
    /\ commands' = commands + 1
    /\ offered' = (messages # <<>>)
    /\ IF messages = <<>> \/ save = "no"
       THEN /\ Exit(0)
            /\ isRunning' = FALSE
            /\ display' = [kind |-> "info", text |-> "Goodbye"]
            /\ UNCHANGED <<store, now, errors>>
       ELSE IF save = "interrupt"
       THEN /\ pc' = "caught"
            /\ UNCHANGED <<store, now, errors, display, isRunning, exitCode, engines, streamOpen>>
       ELSE IF config.conversationHistory /\ ~ioOk
       THEN /\ display' = [kind |-> "error", text |-> "An error occurred"]
            /\ errors' = errors + 1
            /\ now' = now + 1
            /\ UNCHANGED <<store, pc, isRunning, exitCode, engines, streamOpen>>
       ELSE /\ Exit(0)
            /\ isRunning' = FALSE
            /\ store' = SaveSession(store, sessionId, messages, config, now)
            /\ now' = IF config.conversationHistory THEN now + 1 ELSE now
            /\ display' = [kind |-> "info", text |-> "Goodbye"]
            /\ UNCHANGED errors
    /\ UNCHANGED <<messages, sessionId, config, outcome, request, sends, listed, found, called>>
    /\ UNCHANGED <<promise, buffer, fullResponse, surfaced, parsed, wire, delivered, toolVars>>

\* Ctrl-C at the input prompt: the prompt rejects with the force-closed error
\* and the loop's catch takes it
Interrupt ==
    /\ pc = "idle"
    /\ isRunning
    /\ pc' = "caught"
    /\ UNCHANGED <<messages, sessionId, store, config, isRunning, errors, outcome, request, sends,
                   display, commands, sessionVars>>
    /\ UNCHANGED <<streamVars, delivered, toolVars>>

\* the catch of the loop on the force-closed error: handleExit.  An error it
\* throws here leaves start; the chat action of index.ts reports it and
\* calls process.exit(1).
CatchForceClosed(save, ioOk) ==
    /\ pc = "caught"
    /\ offered' = (messages # <<>>)
    /\ IF messages = <<>> \/ save = "no"
       THEN /\ Exit(0)
            /\ isRunning' = FALSE
            /\ display' = [kind |-> "info", text |-> "Goodbye"]
            /\ UNCHANGED <<store, now, errors>>
       ELSE IF save = "interrupt" \/ (config.conversationHistory /\ ~ioOk)
       THEN /\ Exit(1)
            /\ display' = [kind |-> "error", text |-> "Failed to start chat"]
            /\ errors' = errors + 1
            /\ now' = IF save = "yes" THEN now + 1 ELSE now
            /\ UNCHANGED <<store, isRunning>>
       ELSE /\ Exit(0)
            /\ isRunning' = FALSE
            /\ store' = SaveSession(store, sessionId, messages, config, now)
            /\ now' = IF config.conversationHistory THEN now + 1 ELSE now
            /\ display' = [kind |-> "info", text |-> "Goodbye"]
            /\ UNCHANGED errors
    /\ UNCHANGED <<messages, sessionId, config, outcome, request, sends, commands, listed, found, called>>
    /\ UNCHANGED <<promise, buffer, fullResponse, surfaced, parsed, wire, delivered, toolVars>>

\* the status a shell reports for a process that SIGINT ended
KilledBySigint == 130

\* Ctrl-C while sendMessage awaits the response: no prompt is open to reject
\* and the program installs no SIGINT handler.  The signal ends the process,
\* or, when the terminal is in raw mode for the spinner, the key is dropped.
InterruptInFlight(killed) ==
    /\ pc \in {"posting", "streaming"}
    /\ IF killed
       THEN /\ Exit(KilledBySigint)
            /\ UNCHANGED <<messages, sessionId, store, config, isRunning, errors, outcome, request,
                           sends, display, commands, now, listed, found, offered, called>>
            /\ UNCHANGED <<promise, buffer, fullResponse, surfaced, parsed, wire, delivered, toolVars>>
       ELSE UNCHANGED vars

----------------------------------------------------------------------------
(* The command line: index.ts from program.parse() on.  The arguments are   *)
(* a command name ("" when none is typed) and the texts of its options.     *)

\* an option that was not typed: commander leaves it undefined
NotGiven == <<>>

NoArgs == [command |-> "", temperature |-> NotGiven, maxTokens |-> NotGiven,
           system |-> NotGiven, message |-> NotGiven]

OptionsGiven(args) ==
    Cardinality({o \in {"temperature", "maxTokens", "system", "message"} : args[o] # NotGiven})

\* process.argv.length: node, the script, the command name and, for each
\* option, its flag and its text
ArgvLength(args) == 2 + (IF args.command = "" THEN 0 ELSE 1) + 2 * OptionsGiven(args)

\* program.parse() and then, when process.argv.length === 2, the second
\* program.parse([...process.argv, 'chat']): the number of times the chat
\* action is dispatched.  chat is the default command (isDefault), so the
\* first parse dispatches it too when no command name is typed.
ChatDispatches(args) ==
    (IF args.command \in {"", "chat"} THEN 1 ELSE 0) + (IF ArgvLength(args) = 2 THEN 1 ELSE 0)

\* what the configuration store keeps for a number: it is written with
\* JSON.stringify, which turns NaN into null
Null == "null"
Stored(v) == IF v.nan THEN Null ELSE v.value

\* the chat action's "Apply command-line options to config"
ChatOptions(cfg, args) ==
    [cfg EXCEPT !.temperature = IF args.temperature = NotGiven THEN @
                                ELSE Stored(ParseFloat(args.temperature)),
                !.maxTokens = IF args.maxTokens = NotGiven THEN @
                              ELSE Stored(ParseInt(args.maxTokens))]

\* the config action's tests of --temperature and --max-tokens
TemperatureAccepted(args) ==
    /\ args.temperature # NotGiven
    /\ ~ParseFloat(args.temperature).nan
    /\ ParseFloat(args.temperature).value >= 0
    /\ ParseFloat(args.temperature).value <= 20
MaxTokensAccepted(args) ==
    /\ args.maxTokens # NotGiven
    /\ ~ParseInt(args.maxTokens).nan
    /\ ParseInt(args.maxTokens).value > 0

ConfigOptions(cfg, args) ==
    [cfg EXCEPT !.temperature = IF TemperatureAccepted(args)
                                THEN ParseFloat(args.temperature).value ELSE @,
                !.maxTokens = IF MaxTokensAccepted(args)
                              THEN ParseInt(args.maxTokens).value ELSE @]

\* the last line the config action displays
ConfigDisplay(args) ==
    IF ~TemperatureAccepted(args) /\ ~MaxTokensAccepted(args)
    THEN [kind |-> "info", text |-> "No configuration changes made"]
    ELSE IF MaxTokensAccepted(args)
    THEN [kind |-> "success", text |-> "Default max tokens set to"]
    ELSE IF args.maxTokens # NotGiven
    THEN [kind |-> "error", text |-> "Max tokens must be a positive number"]
    ELSE [kind |-> "success", text |-> "Default temperature set to"]

ConfigErrors(args) ==
    (IF args.temperature # NotGiven /\ ~TemperatureAccepted(args) THEN 1 ELSE 0)
    + (IF args.maxTokens # NotGiven /\ ~MaxTokensAccepted(args) THEN 1 ELSE 0)

\* InteractiveChat.start(undefined, systemPrompt, false) up to its first prompt
Start(systemPrompt) ==
    /\ isRunning' = TRUE
    /\ pc' = "idle"
    /\ exitCode' = -1
    /\ IF systemPrompt # NotGiven
       THEN /\ messages' = Push(<<>>, [role |-> "system", content |-> systemPrompt])
            /\ display' = [kind |-> "info", text |-> "System prompt set"]
       ELSE /\ messages' = <<>>
            /\ display' = [kind |-> "info", text |-> "Type /help for available commands"]

\* the program is run from the shell.  keyed = FALSE when no API key is in
\* the store or the environment; replyOk = FALSE when the single request of
\* --message fails.
Launch(args, keyed, replyOk) ==
    /\ pc = "shell"
    /\ commands < MaxCommands
    /\ commands' = commands + 1
    /\ IF args.command = "config"
       THEN /\ config' = ConfigOptions(config, args)
            /\ display' = ConfigDisplay(args)
            /\ errors' = errors + ConfigErrors(args)
            /\ exitCode' = 0
            /\ UNCHANGED <<messages, isRunning, pc, engines>>
       ELSE IF ~keyed
       THEN /\ display' = [kind |-> "error", text |-> "API key not configured"]
            /\ errors' = errors + 1
            /\ exitCode' = 1
            /\ UNCHANGED <<messages, config, isRunning, pc, engines>>
       ELSE IF args.message # NotGiven
       THEN /\ config' = ChatOptions(config, args)
            /\ display' = IF replyOk THEN [kind |-> "assistant", text |-> "AI:"]
                          ELSE [kind |-> "error", text |-> "Failed to get response"]
            /\ errors' = IF replyOk THEN errors ELSE errors + 1
            /\ exitCode' = IF replyOk THEN 0 ELSE 1
            /\ UNCHANGED <<messages, isRunning, pc, engines>>
       ELSE /\ config' = ChatOptions(config, args)
            /\ engines' = engines + ChatDispatches(args)
            /\ Start(args.system)
            /\ UNCHANGED errors
    /\ UNCHANGED <<sessionId, store, outcome, request, sends, now, listed, found, offered, called>>
    /\ UNCHANGED <<streamVars, delivered, toolVars>>

----------------------------------------------------------------------------
(* The conversation manager called directly, its operations in any order *)

\* the clock at start-up, in ticks: the files of earlier runs carry earlier dates
StartTime == 4

MaxTurns == 1       \* turns addMessage appends per run
MaxSaves == 1       \* saveSession calls per run

\* what a direct call did: for loadSession the values it assigned
Did(op, threw, msgs, id) == [op |-> op, threw |-> threw, messages |-> msgs, id |-> id]

\* the manager can be called: the process runs, and no load has left
\* this.messages undefined
Intact ==
    /\ pc = "idle"
    /\ IF called = <<>> THEN TRUE
       ELSE called[1].op # "load" \/ called[1].threw \/ called[1].messages.kind = "list"

\* addMessage(role, content)
AddMessage(role, content) ==
    /\ Intact
    /\ Len(messages) < MaxTurns
    /\ messages' = Push(messages, [role |-> role, content |-> content])
    /\ UNCHANGED <<sessionId, store, config, isRunning, pc, errors, outcome, request, sends, display,
                   commands, sessionVars>>
    /\ UNCHANGED <<streamVars, delivered, toolVars>>

\* clear()
Clear ==
    /\ Intact
    /\ messages' = <<>>
    /\ UNCHANGED <<sessionId, store, config, isRunning, pc, errors, outcome, request, sends, display,
                   commands, sessionVars>>
    /\ UNCHANGED <<streamVars, delivered, toolVars>>

\* saveSession(): ioOk = FALSE when writeFile rejects, and the call with it
SaveSessionCall(ioOk) ==
    /\ Intact
    /\ now < StartTime + MaxSaves
    /\ store' = IF ioOk THEN SaveSession(store, sessionId, messages, config, now) ELSE store
    /\ now' = IF config.conversationHistory THEN now + 1 ELSE now
    /\ called' = <<Did("save", config.conversationHistory /\ ~ioOk, JUndefined, JUndefined)>>
    /\ UNCHANGED <<messages, sessionId, config, isRunning, pc, errors, outcome, request, sends, display,
                   commands, listed, found, offered, exitCode, engines>>
    /\ UNCHANGED <<streamVars, delivered, toolVars>>

\* loadSession(sessionId) after the call of LoadSession: the manager keeps
\* its transcript and id when it threw
Loaded(r) ==
    /\ called' = <<Did("load", r.threw, r.messages, r.id)>>
    /\ messages' = IF r.threw THEN messages ELSE Turns(r.messages)
    /\ sessionId' = IF r.threw THEN sessionId ELSE IdText(r.id)

\* loadSession(sessionId)
LoadSessionCall(id) ==
    /\ Intact
    /\ Loaded(LoadSession(store, id))
    /\ UNCHANGED <<store, config, isRunning, pc, errors, outcome, request, sends, display,
                   commands, now, listed, found, offered, exitCode, engines>>
    /\ UNCHANGED <<streamVars, delivered, toolVars>>

\* listSessions(): readable = FALSE when readdir throws
ListSessionsCall(readable) ==
    /\ Intact
    /\ listed' = ListSessions(store, readable)
    /\ UNCHANGED <<messages, sessionId, store, config, isRunning, pc, errors, outcome, request, sends,
                   display, commands, now, found, offered, exitCode, engines, called>>
    /\ UNCHANGED <<streamVars, delivered, toolVars>>

----------------------------------------------------------------------------
(* Specifications *)

\* the frames a server sends to the engine
FrameH == <<D, OpenC, "H", CloseC, BSN>>
FrameLo == <<D, OpenC, "l", "o", CloseC, BSN>>
FrameDone == <<D, DONE, BSN>>
FrameTool == <<D, "tc0:{x:", BSN>>
EngineChunks == {FrameH, FrameLo, FrameDone, FrameTool}

\* the clock at start-up and nothing listed, searched or offered yet; the
\* files of earlier runs carry earlier dates
SessionIdle ==
    /\ now = StartTime
    /\ listed = <<>>
    /\ found = <<>>
    /\ offered = FALSE
    /\ exitCode = -1
    /\ called = <<>>
    /\ engines = 1

\* the program as constructed, at its first prompt, history enabled or not
Constructed ==
    /\ messages = <<>>
    /\ sessionId = "s0"
    /\ config \in {DefaultConfig, [DefaultConfig EXCEPT !.conversationHistory = FALSE]}
    /\ isRunning = TRUE
    /\ pc = "idle"
    /\ errors = 0
    /\ display = [kind |-> "none", text |-> ""]
    /\ commands = 0
    /\ outcome = "none"
    /\ request = <<>>
    /\ streamOpen = FALSE
    /\ promise = "none"
    /\ buffer = <<>>
    /\ fullResponse = <<>>
    /\ surfaced = <<>>
    /\ parsed = <<>>
    /\ wire = <<>>
    /\ sends = 0
    /\ delivered = 0
    /\ SessionIdle
    /\ tools = BuiltInTools
    /\ handlers = BuiltInHandlers
    /\ expression = <<>>
    /\ lastCall = <<>>
    /\ lastResult = <<>>
    /\ raised = FALSE
    /\ registrations = 0
    /\ evaluated = <<>>
    /\ lastRegistered = <<>>

Init ==
    /\ Constructed
    /\ store = <<>>

Next ==
    \/ \E c \in UserInputs : SendMessage(c)
    \/ PostOk
    \/ PostFail
    \/ \E c \in EngineChunks : OnData(c)
    \/ OnEnd
    \/ OnError
    \/ \E ioOk \in BOOLEAN : Commit(ioOk)
    \/ Catch

Spec == Init /\ [][Next]_vars

----------------------------------------------------------------------------
(* The parser alone: one call of streamChatCompletion whose response stream *)
(* has just been opened, fed by a server that may send anything             *)

\* newline-terminated frames, the framing of the wire protocol
LineHel == <<D, OpenC, "H", "e", "l", CloseC, LF>>
LineLo == <<D, OpenC, "l", "o", CloseC, LF>>
LineBad == <<D, Bad, LF>>
LineDone == <<D, DONE, LF>>
NewlineFrames == {LineHel, LineLo, LineBad, LineDone}

\* frames terminated by the two characters backslash, n
FrameBad == <<D, Bad, BSN>>
FrameTool2 == <<D, "tc0:1}", BSN>>
FrameTool3 == <<D, "tc1:{}", BSN>>
\* a frame cut in two by the transport
PartHead == <<D, OpenC, "H">>
PartTail == <<"e", CloseC, BSN>>

ParserChunks == NewlineFrames \cup {FrameH, FrameLo, FrameDone, FrameBad,
                                    FrameTool, FrameTool2, FrameTool3, PartHead, PartTail}

InitParser ==
    /\ messages = <<[role |-> "user", content |-> <<"h", "i">>]>>
    /\ sessionId = "s0"
    /\ store = <<>>
    /\ config = DefaultConfig
    /\ isRunning = TRUE
    /\ pc = "streaming"
    /\ errors = 0
    /\ display = [kind |-> "none", text |-> ""]
    /\ commands = 0
    /\ outcome = "pending"
    /\ request = <<BuildRequest(messages, config)>>
    /\ streamOpen = TRUE
    /\ promise = "pending"
    /\ buffer = <<>>
    /\ fullResponse = <<>>
    /\ surfaced = <<>>
    /\ parsed = <<>>
    /\ wire = <<>>
    /\ sends = 1
    /\ delivered = 0
    /\ SessionIdle
    /\ tools = BuiltInTools
    /\ handlers = BuiltInHandlers
    /\ expression = <<>>
    /\ lastCall = <<>>
    /\ lastResult = <<>>
    /\ raised = FALSE
    /\ registrations = 0
    /\ evaluated = <<>>
    /\ lastRegistered = <<>>

NextParser ==
    \/ \E c \in ParserChunks : OnData(c)
    \/ OnEnd
    \/ OnError

SpecParser == InitParser /\ [][NextParser]_vars

\* a frame whose content is one two-byte character, whole and cut between
\* its bytes by the transport
FrameEAcute == <<D, OpenC, LeadByte, TrailByte, CloseC, BSN>>
PartLead == <<D, OpenC, LeadByte>>
PartTrail == <<TrailByte, CloseC, BSN>>

SplitChunks == {FrameH, FrameDone, PartHead, PartTail, FrameEAcute, PartLead, PartTrail}

NextSplit ==
    \/ \E c \in SplitChunks : OnData(c)
    \/ OnEnd
    \/ OnError

SpecSplit == InitParser /\ [][NextSplit]_vars

----------------------------------------------------------------------------
(* The engine at its prompt: command lines and messages typed by a user     *)
(* whose requests all fail to connect                                       *)

CommandLines ==
    { <<"/", "foo">>, <<"/">>, <<"/", "help">>,
      <<"/", "clear">>,
      <<"/", "model">>, <<"/", "model", " ", "qwen-3-32b">>,
      <<"/", "system">>, <<"/", "system", " ", "Be", " ", "brief">>,
      <<"/", "temp">>, <<"/", "temp", " ", "0">>, <<"/", "temp", " ", "1", ".", "5">>,
      <<"/", "TEMP", " ", "2">>, <<"/", "temp", " ", "5">>, <<"/", "temp", " ", "-", "1">>,
      <<"/", "temp", " ", "a", "b", "c">>, <<"/", "temp", " ", "1", "a", "b", "c">>,
      <<"/", "temperature", " ", "2", ".", "5">>,
      <<"/", "tokens">>, <<"/", "tokens", " ", "2", "5", "6">>, <<"/", "tokens", " ", "0">>,
      <<"/", "tokens", " ", "-", "3">>, <<"/", "tokens", " ", "a", "b", "c">>,
      <<"/", "tokens", " ", "5", "x">>,
      <<"/", "theme">>, <<"/", "theme", " ", "dark">>, <<"/", "theme", " ", "neon">>,
      <<"/", "theme", " ", "Dark">> }

NextCommands ==
    \/ \E l \in CommandLines, a \in Answers : HandleCommand(l, a)
    \/ \E c \in UserInputs : SendMessage(c)
    \/ PostFail

SpecCommands == Init /\ [][NextCommands]_vars

----------------------------------------------------------------------------
(* The engine with its exit path: messages, a few commands, /exit and /quit, *)
(* and Ctrl-C at the prompt and while a response is awaited                 *)

SessionLines == {<<"/", "clear">>}
SessionInputs == {<<"h", "i">>}
ExitLines == {<<"/", "exit">>, <<"/", "quit">>}
SessionChunks == {FrameH, FrameDone}

NextSession ==
    \/ \E c \in SessionInputs : SendMessage(c)
    \/ PostOk
    \/ PostFail
    \/ \E c \in SessionChunks : OnData(c)
    \/ OnEnd
    \/ OnError
    \/ \E ioOk \in BOOLEAN : Commit(ioOk)
    \/ Catch
    \/ \E l \in SessionLines : HandleCommand(l, "failed")
    \/ \E l \in ExitLines, save \in SaveAnswers, ioOk \in BOOLEAN : ExitCommand(l, save, ioOk)
    \/ Interrupt
    \/ \E save \in SaveAnswers, ioOk \in BOOLEAN : CatchForceClosed(save, ioOk)
    \/ \E killed \in BOOLEAN : InterruptInFlight(killed)

SpecSession == Init /\ [][NextSession]_vars

----------------------------------------------------------------------------
(* The transcript over rounds that succeed: messages, answers that arrive   *)
(* in one chunk or fail to connect, /clear and /search                      *)

AnswerChunks == {FrameH \o FrameDone}
TranscriptSearch == <<"/", "search", " ", "h">>

NextTranscript ==
    \/ \E c \in SessionInputs : SendMessage(c)
    \/ PostOk
    \/ PostFail
    \/ \E c \in AnswerChunks : OnData(c)
    \/ \E ioOk \in BOOLEAN : Commit(ioOk)
    \/ \E l \in SessionLines : HandleCommand(l, "failed")
    \/ SearchConversations(TranscriptSearch, TRUE)

SpecTranscript == Init /\ [][NextTranscript]_vars

----------------------------------------------------------------------------
(* The program run from the shell: config and chat command lines, then the  *)
(* commands and messages typed at the prompt                                *)

\* the texts of --temperature and --max-tokens
TemperatureTexts == {NotGiven, <<"1">>, <<"5">>}
MaxTokensTexts == {NotGiven, <<"0">>, <<"2", "5", "6">>}

ChatArgs ==
    {NoArgs} \cup
    {[command |-> c, temperature |-> t, maxTokens |-> k, system |-> s, message |-> m] :
        c \in {"", "chat"}, t \in TemperatureTexts, k \in MaxTokensTexts,
        s \in {NotGiven, <<"B">>}, m \in {NotGiven, <<"h", "i">>}}

ConfigArgs ==
    {[command |-> "config", temperature |-> t, maxTokens |-> k, system |-> NotGiven,
      message |-> NotGiven] :
        t \in TemperatureTexts \cup {<<"a", "b", "c">>},
        k \in MaxTokensTexts \cup {<<"a", "b", "c">>}}

LaunchLines ==
    { <<"/", "temp", " ", "3">>, <<"/", "temp", " ", "a", "b", "c">>,
      <<"/", "tokens", " ", "0">>, <<"/", "tokens", " ", "5">>,
      <<"/", "system", " ", "C">>, <<"/", "clear">> }

InitLaunch ==
    /\ messages = <<>>
    /\ sessionId = "s0"
    /\ store = <<>>
    /\ config = DefaultConfig
    /\ isRunning = FALSE
    /\ pc = "shell"
    /\ errors = 0
    /\ display = [kind |-> "none", text |-> ""]
    /\ commands = 0
    /\ outcome = "none"
    /\ request = <<>>
    /\ streamOpen = FALSE
    /\ promise = "none"
    /\ buffer = <<>>
    /\ fullResponse = <<>>
    /\ surfaced = <<>>
    /\ parsed = <<>>
    /\ wire = <<>>
    /\ sends = 0
    /\ delivered = 0
    /\ now = StartTime
    /\ listed = <<>>
    /\ found = <<>>
    /\ offered = FALSE
    /\ exitCode = -1
    /\ called = <<>>
    /\ engines = 0
    /\ tools = BuiltInTools
    /\ handlers = BuiltInHandlers
    /\ expression = <<>>
    /\ lastCall = <<>>
    /\ lastResult = <<>>
    /\ raised = FALSE
    /\ registrations = 0
    /\ evaluated = <<>>
    /\ lastRegistered = <<>>

NextLaunch ==
    \/ \E args \in ChatArgs \cup ConfigArgs, keyed, replyOk \in BOOLEAN : Launch(args, keyed, replyOk)
    \/ \E l \in LaunchLines : HandleCommand(l, "failed")
    \/ \E c \in SessionInputs : SendMessage(c)
    \/ PostFail

SpecLaunch == InitLaunch /\ [][NextLaunch]_vars

----------------------------------------------------------------------------
(* The session store: a history directory that earlier runs left behind,    *)
(* and a user who types messages, /save, /history and /search.  Requests    *)
(* fail to connect, so a message leaves its user turn and nothing else.     *)

Turn(role, content) == [role |-> role, content |-> content]

\* the sessions of earlier runs
Session1 ==
    <<Turn("user", <<"x", " ", "a">>), Turn("assistant", <<"a", "X", "a">>), Turn("user", <<"b">>),
      Turn("assistant", <<"x", "x">>), Turn("user", <<"a", "x">>)>>
Session2 == <<Turn("user", <<"b">>), Turn("assistant", <<"X", Quote, "b">>)>>
Session3 == <<Turn("system", <<"b", LF>>), Turn("user", <<"b", Backslash, "n">>)>>

\* what the third file can hold instead of a session: text cut short, the
\* empty object, null, a session without its messages, a session without its id
Corrupt == <<"{", KId, Quote, "s", "3">>
EmptyObject == <<"{", "}">>
NullFile == <<"null">>
NoMessages == <<"{", KId>> \o StringifyString(<<"s3">>) \o <<",", KDate>> \o StringifyString(<<"3">>) \o <<"}">>
NoId == <<"{", KDate>> \o StringifyString(<<"3">>) \o <<",", KMessages, "[", "]", "}">>

Absent == <<"absent">>
StoredNames == {"s1", "s2", "s3"}
Candidates(f) ==
    CASE f = "s1" -> {StringifySession("s1", 1, Session1)}
      [] f = "s2" -> {StringifySession("s2", 2, Session2)}
      [] f = "s3" -> {Absent, StringifySession("s3", 3, Session3),
                      Corrupt, EmptyObject, NullFile, NoMessages, NoId}

\* the directories the model starts from
Directory(c) == [f \in {g \in StoredNames : c[g] # Absent} |-> c[f]]
InitialStores ==
    {Directory(c) : c \in {d \in [StoredNames -> UNION {Candidates(f) : f \in StoredNames}] :
                              \A f \in StoredNames : d[f] \in Candidates(f)}}

\* the time at which the session of an id was created: the files of earlier
\* runs in their order, then the live session of this run
Created(id) ==
    CASE id = "s1" -> 1
      [] id = "s2" -> 2
      [] id = "s3" -> 3
      [] id = "s0" -> 4
      [] OTHER -> 0

StoreInputs == {<<"x", Quote, Backslash, "n", LF>>}
SearchLines == {<<"/", "search">>, <<"/", "search", " ", "X">>, <<"/", "search", " ", "q">>}

\* three sessions, all of them readable
ThreeSessions ==
    Directory([f \in StoredNames |->
                  CASE f = "s1" -> StringifySession("s1", 1, Session1)
                    [] f = "s2" -> StringifySession("s2", 2, Session2)
                    [] f = "s3" -> StringifySession("s3", 3, Session3)])

\* the history is enabled, or was when the three sessions were written
InitStore ==
    /\ Constructed
    /\ store \in InitialStores
    /\ config.conversationHistory \/ store = ThreeSessions

NextStore ==
    \/ \E c \in StoreInputs : SendMessage(c)
    \/ PostFail
    \/ \E ioOk \in BOOLEAN : SaveCommand(<<"/", "save">>, ioOk)
    \/ \E readable \in BOOLEAN : ShowHistory(<<"/", "history">>, readable)
    \/ \E l \in SearchLines, readable \in BOOLEAN : SearchConversations(l, readable)

SpecStore == InitStore /\ [][NextStore]_vars

----------------------------------------------------------------------------
(* The conversation manager over such a directory, called directly *)

TurnInputs == {Turn("user", <<"x", Quote, Backslash, "n", LF>>)}

NextManager ==
    \/ \E t \in TurnInputs : AddMessage(t.role, t.content)
    \/ Clear
    \/ \E ioOk \in BOOLEAN : SaveSessionCall(ioOk)
    \/ \E id \in {"s0", "s1", "s3", "s9"} : LoadSessionCall(id)
    \/ \E readable \in BOOLEAN : ListSessionsCall(readable)

SpecManager == InitStore /\ [][NextManager]_vars

----------------------------------------------------------------------------
(* extractSnippet on long turns: one stored session of one turn, searched   *)

Pad(n) == [i \in 1..n |-> "a"]
\* the lengths of the text before and after the match
SnippetPads == {0, 1, 49, 50, 51, 60}
SnippetContents ==
    {Pad(n) \o <<"x">> \o Pad(m) : n \in SnippetPads, m \in SnippetPads}
        \cup {Pad(n) \o <<"X", "x">> \o Pad(m) : n \in {0, 60}, m \in {0, 60}}
        \cup {<<"a", " ", "x", " ">>, <<" ", "x", "a">>, <<"b">>,
              [i \in 1..60 |-> IDot] \o <<"x">>, <<IDot, "x">>}
SnippetLines == {<<"/", "search", " ", "x">>, <<"/", "search", " ", "x", " ">>}

InitSnippet ==
    /\ Constructed
    /\ config.conversationHistory
    /\ \E c \in SnippetContents :
          store = [f \in {"s1"} |-> StringifySession("s1", 1, <<Turn("user", c)>>)]

NextSnippet == \E l \in SnippetLines : SearchConversations(l, TRUE)

SpecSnippet == InitSnippet /\ [][NextSnippet]_vars

----------------------------------------------------------------------------
(* The tool manager alone: nothing in the chat engine calls it, so it is    *)
(* driven here by a caller that registers tools and dispatches invocations  *)

\* the chat engine as constructed, which the tool manager never touches
EngineIdle ==
    /\ messages = <<>>
    /\ sessionId = "s0"
    /\ store = <<>>
    /\ config = DefaultConfig
    /\ isRunning = TRUE
    /\ pc = "idle"
    /\ errors = 0
    /\ display = [kind |-> "none", text |-> ""]
    /\ commands = 0
    /\ outcome = "none"
    /\ request = <<>>
    /\ streamOpen = FALSE
    /\ promise = "none"
    /\ buffer = <<>>
    /\ fullResponse = <<>>
    /\ surfaced = <<>>
    /\ parsed = <<>>
    /\ wire = <<>>
    /\ sends = 0
    /\ delivered = 0
    /\ SessionIdle

\* the argument text {"expression":"<e>"}
ExpressionArguments(e) == <<"{", "\"expression\"", ":", Quote>> \o e \o <<Quote, "}">>

ArgumentTexts ==
    { <<"{", "}">>,
      ExpressionArguments(<<"2", "+", "2">>),
      <<"{", "\"timezone\"", ":", Quote, "U", "T", "C", Quote, "}">>,
      <<"{", "\"timezone\"", ":", Quote, "M", "a", "r", "s", Quote, "}">>,
      <<"{", "\"type\"", ":", Quote, "n", "u", "m", "b", "e", "r", Quote, ",", "\"min\"", ":", "0", ",", "\"max\"", ":", "5", "}">>,
      <<"{", "\"type\"", ":", Quote, "x", Quote, "}">>,
      <<"null">>,
      <<"5">>,
      <<"[", "]">>,
      <<>>,
      <<"{">>,
      <<"{", "\"expression\"", ":", Quote, "2", "}">> }

ToolNames == {"calculate", "get_current_time", "generate_random", "echo", "does_not_exist"}
CallIds == {"call_1", "call_2"}
ToolCalls == [id : CallIds, name : ToolNames, arguments : ArgumentTexts]

\* what a caller registers: a new tool, or a replacement for a built-in one
CustomTools == {[name |-> "echo", description |-> "Echo"],
                [name |-> "calculate", description |-> "Custom calculator"]}
CustomHandlers == {"custom_ok", "custom_throws"}

InitTools ==
    /\ EngineIdle
    /\ tools = BuiltInTools
    /\ handlers = BuiltInHandlers
    /\ expression = <<>>
    /\ lastCall = <<>>
    /\ lastResult = <<>>
    /\ raised = FALSE
    /\ registrations = 0
    /\ evaluated = <<>>
    /\ lastRegistered = <<>>

NextTools ==
    \/ \E t \in CustomTools, h \in CustomHandlers : RegisterTool(t, h)
    \/ \E c \in ToolCalls, rnd \in RandomUnits : ExecuteTool(c, rnd)

SpecTools == InitTools /\ [][NextTools]_vars

----------------------------------------------------------------------------
(* The random tool alone: invocations of generate_random for a number, with *)
(* each bound omitted or supplied                                           *)

\* the text of a bound: none when it is omitted
NoBound == <<>>
BoundTexts == {NoBound, <<"-", "5">>, <<"-", "1">>, <<"0">>, <<"1">>, <<"5">>}

\* the argument text {"type":"number"[,"min":<min>][,"max":<max>]}
NumberArguments(min, max) ==
    <<"{", "\"type\"", ":", Quote, "n", "u", "m", "b", "e", "r", Quote>>
        \o (IF min = NoBound THEN <<>> ELSE <<",", "\"min\"", ":">> \o min)
        \o (IF max = NoBound THEN <<>> ELSE <<",", "\"max\"", ":">> \o max)
        \o <<"}">>

RandomCalls ==
    {[id |-> i, name |-> "generate_random", arguments |-> NumberArguments(min, max)] :
        i \in CallIds, min \in BoundTexts, max \in BoundTexts}

NextRandom == \E c \in RandomCalls, rnd \in RandomUnits : ExecuteTool(c, rnd)

SpecRandom == InitTools /\ [][NextRandom]_vars

----------------------------------------------------------------------------
(* The calculator alone: one invocation of calculate on an expression drawn *)
(* from the short strings over the characters of arithmetic                 *)

CalcAlphabet == {"0", "1", "2", "+", "-", "*", "/", "(", ")"}

\* the examples of the tool's description and of the documentation
NamedExpressions ==
    { <<"2", " ", "+", " ", "2">>,
      <<"s", "q", "r", "t", "(", "1", "6", ")">>,
      <<"s", "i", "n", "(", "p", "i", "/", "2", ")">>,
      <<"2", "^", "3">>,
      <<"1", ".", "5", "*", "2">> }

\* text a model could send instead of arithmetic
HostileExpressions ==
    { <<"p", "r", "o", "c", "e", "s", "s", ".", "e", "x", "i", "t", "(", "1", ")">>,
      <<"[", "1", "]", "[", "0", "]">>,
      <<"'", "a", "'", "+", "$", "{", "b", "}">>,
      <<"a", "=", "1", ";", "{", "}">>,
      <<"e", "(", ")">> }

Expressions ==
    UNION {[1..n -> CalcAlphabet] : n \in 0..MaxExprLen} \cup NamedExpressions \cup HostileExpressions

InitCalc ==
    /\ EngineIdle
    /\ tools = BuiltInTools
    /\ handlers = BuiltInHandlers
    /\ expression \in Expressions
    /\ lastCall = <<>>
    /\ lastResult = <<>>
    /\ raised = FALSE
    /\ registrations = 0
    /\ evaluated = <<>>
    /\ lastRegistered = <<>>

\* the invocation of calculate the model makes for an expression
CalculateCall(e) == [id |-> "call_1", name |-> "calculate", arguments |-> ExpressionArguments(e)]

NextCalc == \E rnd \in RandomUnits : ExecuteTool(CalculateCall(expression), rnd)

SpecCalc == InitCalc /\ [][NextCalc]_vars

----------------------------------------------------------------------------
(* Claims about the parser and the engine *)

Range(f) == {f[i] : i \in DOMAIN f}

\* what a newline-terminated frame carries
FrameContent(c) ==
    CASE c = LineHel -> <<"H", "e", "l">>
      [] c = LineLo -> <<"l", "o">>
      [] OTHER -> <<>>

\* a response of newline-terminated lines that ends with the sentinel line
EndsWithSentinel(w) ==
    /\ w # <<>>
    /\ \A i \in 1..Len(w) : w[i] \in NewlineFrames
    /\ Last(w) = LineDone
    /\ \A i \in 1..(Len(w) - 1) : w[i] # LineDone

\* the non-empty delta contents such a response carries, in arrival order
RECURSIVE ExpectedDeltas(_)
ExpectedDeltas(w) ==
    IF w = <<>> THEN <<>>
    ELSE (IF FrameContent(Head(w)) # <<>> THEN <<FrameContent(Head(w))>> ELSE <<>>)
         \o ExpectedDeltas(Tail(w))

\* C1: once a response of newline-terminated data lines has been delivered up to
\* its [DONE] line, the deltas surfaced to onChunk are exactly the non-empty
\* contents of its frames, once each and in arrival order ("Hel", "lo" gives "Hello").
C1_NewlineFramesSurfaced ==
    (EndsWithSentinel(wire) /\ LineBad \notin Range(wire)) => surfaced = ExpectedDeltas(wire)

\* C2: the assistant turn sendMessage appends after a normal termination holds
\* the concatenation, in arrival order, of the deltas surfaced during the call.
C2_TurnIsConcatenation ==
    [][(pc = "streaming" /\ pc' = "idle" /\ promise = "resolved")
        => /\ Len(messages') = Len(messages) + 1
           /\ Last(messages') = [role |-> "assistant", content |-> Flatten(surfaced)]]_vars

\* a single-character delta and a multi-character delta were surfaced and committed
C2_Witness ==
    /\ pc = "idle"
    /\ outcome = "ok"
    /\ surfaced = << <<"H">>, <<"l", "o">> >>
    /\ Last(messages) = [role |-> "assistant", content |-> <<"H", "l", "o">>]

\* C3: when the call fails (the request is rejected or the stream reports an
\* error) the transcript is left as it was, ending with the user turn, whatever
\* was received; one error is reported and the engine is idle and still running.
C3_FailureCommitsNothing ==
    [][(outcome = "pending" /\ outcome' = "failed")
        => /\ messages' = messages
           /\ Last(messages').role = "user"
           /\ errors' = errors + 1
           /\ pc' = "idle"
           /\ isRunning']_vars

\* a stream failed after part of the answer had been received
C3_Witness ==
    /\ pc = "idle"
    /\ outcome = "failed"
    /\ promise = "rejected"
    /\ fullResponse # <<>>
    /\ Last(messages).role = "user"

\* C4: in a response of newline-terminated lines, a data line that is no JSON
\* is dropped and nothing else: every content frame after it and before the
\* sentinel is surfaced, and the call does not fail.
C4_BadLineDropped ==
    (EndsWithSentinel(wire) /\ LineBad \in Range(wire))
        => /\ promise # "rejected"
           /\ \A i, j \in 1..Len(wire) :
                (i < j /\ wire[i] = LineBad /\ FrameContent(wire[j]) # <<>>)
                    => FrameContent(wire[j]) \in Range(surfaced)

\* the frames of the current call that carried a tool-call fragment
ToolFramesParsed == SelectSeq(parsed, LAMBDA f : Len(f) = 1 /\ f[1] \in ToolFrames)

\* C5: a round whose stream completed on the sentinel with tool invocations and
\* no content leaves tool-result turns in the transcript, one per invocation.
C5_ToolRound ==
    (/\ pc = "idle"
     /\ outcome = "ok"
     /\ wire # <<>>
     /\ Last(wire) = FrameDone
     /\ FrameDone \notin Range(Front(wire))
     /\ surfaced = <<>>
     /\ ToolFramesParsed # <<>>)
        => Len(SelectSeq(messages, LAMBDA m : m.role = "tool"))
             >= Cardinality({ToolIndex(f[1]) : f \in Range(ToolFramesParsed)})

\* C6: every completion request the engine issues carries the tool registry's
\* declarations.
C6_RequestCarriesTools ==
    request # <<>> => /\ "tools" \in DOMAIN request[1]
                      /\ request[1].tools = GetTools(tools)

\* the argument text of call index i: its fragments in arrival order
MergedArguments(i) ==
    Flatten([k \in 1..Len(SelectSeq(ToolFramesParsed, LAMBDA f : ToolIndex(f[1]) = i))
               |-> ToolFragment(SelectSeq(ToolFramesParsed, LAMBDA f : ToolIndex(f[1]) = i)[k][1])])

\* C7: when the call has completed on the sentinel, the parser has handed its consumer, for every
\* call index it parsed fragments of, the concatenation of those fragments in
\* arrival order (onChunk is the only channel streamChatCompletion has to its caller).
C7_FragmentsMerged ==
    (/\ promise = "resolved"
     /\ wire # <<>>
     /\ Last(wire) = FrameDone
     /\ FrameDone \notin Range(Front(wire)))
        => \A i \in {ToolIndex(f[1]) : f \in Range(ToolFramesParsed)} :
              MergedArguments(i) \in Range(surfaced)

----------------------------------------------------------------------------
(* Claims about the tool manager *)

\* a step in which executeTool ran, and the invocation it ran on
Executed == lastCall' # <<>> /\ registrations' = registrations
Call == lastCall'[1]

\* C8: executeTool never raises: whatever the invocation (unknown name,
\* argument text that is not JSON, JSON that is not an object, a handler that
\* throws) it returns a result of role "tool" whose tool_call_id is the
\* invocation's id, and for an unknown name the content says the tool is unknown.
C8_AlwaysAToolResult ==
    [][LET call == Call IN
          Executed
              => /\ ~raised'
                 /\ lastResult'[1].role = "tool"
                 /\ lastResult'[1].tool_call_id = call.id
                 /\ ~MapHas(handlers, call.name)
                       => lastResult'[1].content =
                             Text("Error: Unknown tool ", <<Quote, call.name, Quote>>)]_vars

\* an unknown tool was dispatched and answered
C8_Witness ==
    /\ lastCall # <<>>
    /\ lastCall[1].name = "does_not_exist"
    /\ lastCall[1].id = "call_2"
    /\ ~raised
    /\ lastResult[1].tool_call_id = "call_2"
    /\ lastResult[1].content.prefix = "Error: Unknown tool "

\* C9 as stated: argument text that does not parse as a JSON object gets an
\* "invalid arguments" message, which is neither the "execution error"
\* message of a failing handler nor anything the handler returned.
C9_InvalidArgumentsMessage ==
    [][LET call == Call IN
          (/\ Executed
           /\ MapHas(handlers, call.name)
           /\ ParseArguments(call.arguments).kind # "object")
              => /\ lastResult'[1].content.prefix # "Error executing tool: "
                 /\ \A rnd \in RandomUnits :
                       lastResult'[1].content #
                           RunHandler(MapGet(handlers, call.name),
                                      ParseArguments(call.arguments), rnd).content]_vars

\* C9 as amended: argument text that is not valid JSON gets the message
\* "Error executing tool: " followed by the parse error, the same message form
\* a throwing handler gets with its own error; argument text that is valid JSON
\* of any kind is handed to the handler, whose return value is the content.
C9_ParseFailureIsExecutionError ==
    [][LET call == Call IN
          (/\ Executed
           /\ MapHas(handlers, call.name))
              => LET args == ParseArguments(call.arguments)
                     content == lastResult'[1].content
                 IN  /\ args.kind = "error"
                           => content = Text("Error executing tool: ", <<"SyntaxError">>)
                     /\ args.kind # "error"
                           => \E rnd \in RandomUnits :
                                 LET out == RunHandler(MapGet(handlers, call.name), args, rnd)
                                 IN  IF out.threw
                                     THEN content = Text("Error executing tool: ", out.content.body)
                                     ELSE content = out.content]_vars

\* a parse failure and a handler failure have both been answered: here the
\* truncated text "{" sent to a registered tool
C9_Witness ==
    /\ lastCall # <<>>
    /\ lastCall[1].arguments = <<"{">>
    /\ lastCall[1].name = "get_current_time"
    /\ lastResult[1].content = Text("Error executing tool: ", <<"SyntaxError">>)

----------------------------------------------------------------------------
(* Claims about the calculator *)

\* Arithmetic, read off the text: literals are decimal, there is no unary
\* sign, * and / bind tighter than + and -, operators of one level group from
\* the left, and a division by zero has no value.
Depth(t, i) ==
    Cardinality({j \in 1..(i - 1) : t[j] = "("}) - Cardinality({j \in 1..(i - 1) : t[j] = ")"})
TopLevel(t, ops) == {i \in 1..Len(t) : t[i] \in ops /\ Depth(t, i) = 0}
Max(S) == CHOOSE x \in S : \A y \in S : y <= x
NoValue == [ok |-> FALSE, v |-> Num(0, 1)]
Value(v) == [ok |-> TRUE, v |-> v]

RECURSIVE Arithmetic(_)
Arithmetic(t) ==
    IF t = <<>> THEN NoValue
    ELSE IF t[1] = " " THEN Arithmetic(Tail(t))
    ELSE IF Last(t) = " " THEN Arithmetic(Front(t))
    ELSE IF TopLevel(t, {"+", "-", "*", "/"}) # {}
    THEN LET i == IF TopLevel(t, {"+", "-"}) # {} THEN Max(TopLevel(t, {"+", "-"}))
                  ELSE Max(TopLevel(t, {"*", "/"}))
             l == Arithmetic(SubSeq(t, 1, i - 1))
             r == Arithmetic(SubSeq(t, i + 1, Len(t)))
         IN  IF ~l.ok \/ ~r.ok THEN NoValue
             ELSE IF t[i] = "+" THEN Value(NumAdd(l.v, r.v))
             ELSE IF t[i] = "-" THEN Value(NumSub(l.v, r.v))
             ELSE IF t[i] = "*" THEN Value(NumMul(l.v, r.v))
             ELSE IF r.v.n = 0 THEN NoValue
             ELSE Value(NumDiv(l.v, r.v))
    ELSE IF t[1] = "(" /\ Last(t) = ")" /\ \A i \in 2..Len(t) : Depth(t, i) > 0
    THEN Arithmetic(SubSeq(t, 2, Len(t) - 1))
    ELSE IF \A i \in 1..Len(t) : t[i] \in Digits
    THEN Value(Num(DigitsVal(t, 10), 1))
    ELSE NoValue

\* C10: for an arithmetic expression over numeric literals, + - * / and
\* parentheses, calculate returns "Result: " followed by the arithmetic value.
C10_ArithmeticValue ==
    (lastCall # <<>> /\ Arithmetic(expression).ok)
        => lastResult[1].content = Text("Result: ", ValueText(Arithmetic(expression).v))

\* what the advertised vocabulary means for the examples of the documentation
Meaning(e) ==
    CASE e = <<"s", "q", "r", "t", "(", "1", "6", ")">> -> <<"4">>
      [] e = <<"2", "^", "3">> -> <<"8">>
      [] e = <<"s", "i", "n", "(", "p", "i", "/", "2", ")">> -> <<"1">>
      [] e = <<"2", " ", "+", " ", "2">> -> <<"4">>
      [] e = <<"1", ".", "5", "*", "2">> -> <<"3">>

\* C11: the calculator gives the constructs of its advertised vocabulary their
\* mathematical meaning: "sqrt(16)" gives 4, "2^3" gives 8, "sin(pi/2)" gives 1.
C11_AdvertisedVocabulary ==
    (lastCall # <<>> /\ expression \in NamedExpressions)
        => lastResult[1].content = Text("Result: ", Meaning(expression))

\* the characters the claim allows in the evaluated text
PermittedCharacters ==
    {"0", "1", "2", "3", "4", "5", "6", "7", "8", "9",
     "+", "-", "*", "/", "(", ")", ".", "^", " "}

\* C12: the text the calculator evaluates holds only digits, + - * / ( ) . ^
\* and white space, whatever the expression supplied.
C12_OnlyArithmeticCharacters ==
    evaluated # <<>> => \A i \in 1..Len(evaluated[1]) : evaluated[1][i] \in PermittedCharacters

\* a call with identifiers in its expression was evaluated without them
C12_Witness ==
    /\ lastCall # <<>>
    /\ expression = <<"p", "r", "o", "c", "e", "s", "s", ".", "e", "x", "i", "t", "(", "1", ")">>
    /\ evaluated = <<<<".", "(", "1", ")">>>>

----------------------------------------------------------------------------
(* Claims about the random tool *)

\* the bound an argument text supplies, or the default when it is omitted
BoundOr(text, default) ==
    IF text = NoBound THEN default
    ELSE IF text[1] = "-" THEN -DigitsVal(Tail(text), 10)
    ELSE DigitsVal(text, 10)

\* C13: generate_random for a number returns r with min <= r < max, where an
\* omitted min is 0, an omitted max is 100, and a supplied bound, 0 included,
\* is the bound used.
C13_WithinBounds ==
    \A min \in BoundTexts, max \in BoundTexts :
        (/\ lastCall # <<>>
         /\ lastCall[1].name = "generate_random"
         /\ lastCall[1].arguments = NumberArguments(min, max)
         /\ BoundOr(min, 0) < BoundOr(max, 100))
            => \E k \in (100 * BoundOr(min, 0))..(100 * BoundOr(max, 100) - 1) :
                  lastResult[1].content = Text("Random number: ", ValueText(Num(k, 100)))

----------------------------------------------------------------------------
(* Claims about the registry *)

\* a step in which registerTool ran
Registered == registrations' = registrations + 1

\* what executeTool answers when the handler h runs on the argument object {}
AnswerOf(h) ==
    LET out == RunHandler(h, JObject(<<>>), 0)
    IN  IF out.threw THEN Text("Error executing tool: ", out.content.body) ELSE out.content

\* C14: registering a name that exists replaces the prior entry: the registry
\* then holds one declaration for the name, the later one, and executeTool for
\* the name runs the later handler.
C14_LastWriteWins ==
    [][/\ Registered
          => LET r == lastRegistered'[1]
             IN  /\ Cardinality({i \in 1..Len(tools') : tools'[i].key = r.tool.name}) = 1
                 /\ Cardinality({i \in 1..Len(GetTools(tools')) :
                                    GetTools(tools')[i].function.name = r.tool.name}) = 1
                 /\ MapGet(tools', r.tool.name) = r.tool
                 /\ MapGet(handlers', r.tool.name) = r.handler
       /\ (/\ Executed
           /\ lastRegistered # <<>>
           /\ Call.name = lastRegistered[1].tool.name
           /\ Call.arguments = <<"{", "}">>)
          => lastResult'[1].content = AnswerOf(lastRegistered[1].handler)]_vars

\* the built-in calculator was replaced twice and the second replacement answered
C14_Witness ==
    /\ registrations = 2
    /\ Len(tools) = 3
    /\ lastRegistered = <<[tool |-> [name |-> "calculate", description |-> "Custom calculator"],
                           handler |-> "custom_ok"]>>
    /\ lastCall # <<>>
    /\ lastCall[1].name = "calculate"
    /\ lastResult[1].content = Text("ok", <<>>)

\* the names getTools returns, in the order it returns them
ToolOrder(ts) == [i \in 1..Len(GetTools(ts)) |-> GetTools(ts)[i].function.name]

\* C15: getTools returns the declarations in registration order: a new name
\* goes last, and registering an existing name again moves nothing.
C15_RegistrationOrder ==
    [][Registered
          => LET name == lastRegistered'[1].tool.name
             IN  IF name \in Range(ToolOrder(tools))
                 THEN ToolOrder(tools') = ToolOrder(tools)
                 ELSE ToolOrder(tools') = Append(ToolOrder(tools), name)]_vars

\* a new tool was registered and then a built-in one registered again
C15_Witness ==
    /\ registrations = 2
    /\ lastRegistered # <<>>
    /\ lastRegistered[1].tool.name = "calculate"
    /\ ToolOrder(tools) = <<"calculate", "get_current_time", "generate_random", "echo">>
    /\ GetTools(tools)[1].function.description = "Custom calculator"

----------------------------------------------------------------------------
(* Claims about commands *)

\* a step in which handleCommand ran
Commanded == commands' = commands + 1

UnknownLines == {l \in CommandLines : CaseOf(Cmd(l)) = "default"}

\* C16: a line that starts with "/" and names no known command only produces
\* a warning: transcript, session id and configuration are unchanged and the
\* engine is back at its prompt.
C16_UnknownCommandOnlyWarns ==
    [][Commanded
          => \A l \in UnknownLines :
                HandleCommand(l, "failed")
                    => /\ messages' = messages
                       /\ sessionId' = sessionId
                       /\ config' = config
                       /\ store' = store
                       /\ display' = [kind |-> "warning", text |-> "Unknown command"]
                       /\ errors' = errors
                       /\ pc' = "idle"
                       /\ isRunning']_vars

\* an unknown command was typed after a message round and a configuration change
C16_Witness ==
    /\ display.text = "Unknown command"
    /\ messages # <<>>
    /\ config.theme = "dark"
    /\ pc = "idle"

\* the text is a decimal number: an optional sign, digits, at most one point
NumericText(arg) ==
    LET u == IF arg # <<>> /\ arg[1] \in {"-", "+"} THEN Tail(arg) ELSE arg
    IN  /\ \E i \in 1..Len(u) : u[i] \in Digits
        /\ \A i \in 1..Len(u) : u[i] \in Digits \cup {"."}
        /\ Cardinality({i \in 1..Len(u) : u[i] = "."}) <= 1

ThemeNames == {<<"default">>, <<"dark">>, <<"light">>, <<"colorful">>}

\* the line sets a value the documentation does not allow
Invalid(l) ==
    LET case == CaseOf(Cmd(l))
        arg == Arg(l)
    IN  /\ arg # <<>>
        /\ \/ /\ case \in {"temp", "temperature"}
              /\ ~NumericText(arg) \/ ParseFloat(arg).value < 0 \/ ParseFloat(arg).value > 20
           \/ /\ case \in {"tokens", "maxtokens"}
              /\ ~NumericText(arg) \/ ParseFloat(arg).value <= 0
           \/ /\ case = "theme"
              /\ arg \notin ThemeNames

InvalidLines == {l \in CommandLines : Invalid(l)}

\* C17: /temp with a value outside [0,2] or with text that is not a number,
\* /tokens with anything but a positive number and /theme with an unknown name
\* report an error and leave the stored configuration unchanged.
C17_InvalidValueRejected ==
    [][Commanded
          => \A l \in InvalidLines :
                HandleCommand(l, "failed")
                    => /\ config' = config
                       /\ display'.kind = "error"
                       /\ errors' = errors + 1]_vars

OmittedLines ==
    {l \in CommandLines :
        /\ CaseOf(Cmd(l)) \in {"model", "system", "temp", "temperature", "tokens", "maxtokens", "theme"}
        /\ Arg(l) = <<>>}

\* C18 as stated: /model, /system, /temp, /tokens and /theme with the argument
\* omitted change nothing, whatever the user answers to a prompt.
C18_OmittedArgumentMutatesNothing ==
    [][Commanded
          => \A l \in OmittedLines, a \in Answers :
                HandleCommand(l, a) => config' = config /\ messages' = messages]_vars

\* C18 as amended: /system, /temp, /tokens and /theme with the argument omitted
\* change nothing; /model with the argument omitted stores the model the user
\* picks from the fetched list, and changes nothing when the list cannot be
\* fetched.
C18_OnlyModelPromptStores ==
    [][Commanded
          => \A l \in OmittedLines, a \in Answers :
                HandleCommand(l, a)
                    => /\ messages' = messages
                       /\ IF CaseOf(Cmd(l)) = "model" /\ a # "failed"
                          THEN config' = [config EXCEPT !.model = a]
                          ELSE config' = config]_vars

\* /model was typed alone and a model other than the stored one was picked
C18_Witness ==
    /\ display.text = "Model changed to"
    /\ config.model = "llama-3.3-70b"
    /\ commands = 1

\* C19: the request sendMessage issues carries the whole transcript, ending
\* with the user turn just appended, and the model, temperature and max-tokens
\* values stored in the configuration.
C19_RequestCarriesConfiguration ==
    [][sends' = sends + 1
          => /\ request'[1].messages = messages'
             /\ Last(messages').role = "user"
             /\ request'[1].model = config.model
             /\ request'[1].temperature = config.temperature
             /\ request'[1].max_tokens = config.maxTokens]_vars

----------------------------------------------------------------------------
(* Claims about saving *)

\* the file stored under id reads back as the session id with the turns msgs
ReadsAs(r, id, msgs) ==
    /\ ~r.threw
    /\ IdText(r.id) = id
    /\ r.messages.kind = "list"
    /\ Turns(r.messages) = msgs
Holds(st, id, msgs) == id \in DOMAIN st /\ ReadsAs(LoadSession(st, id), id, msgs)

\* a step in which sendMessage appends the assistant turn, history enabled
Committed == pc = "streaming" /\ pc' = "idle" /\ promise = "resolved" /\ config.conversationHistory

----------------------------------------------------------------------------
(* Sessions on disk *)

\* a saveSession call of the manager that wrote the file
Saved ==
    /\ now' = now + 1
    /\ called' # <<>> /\ called'[1].op = "save" /\ ~called'[1].threw

\* the text a turn's content must survive: a quotation mark, a backslash, a line break
Hostile == <<"x", Quote, Backslash, "n", LF>>

\* C21: a session saved with the history enabled loads back, under the id it
\* was saved with, as that id and those turns: as many, in that order, with
\* those roles and those contents.
C21_SaveThenLoadReproduces ==
    [][Saved => Holds(store', sessionId, messages)]_vars

\* a session with a hostile turn was saved and loaded back
C21_Witness ==
    /\ called # <<>> /\ called[1].op = "load" /\ ~called[1].threw
    /\ now > StartTime
    /\ sessionId = "s0"
    /\ messages = <<Turn("user", Hostile)>>

\* C22: with the history disabled saveSession does nothing: the call raises
\* no error and no file of the directory is created or changed, whatever the
\* transcript holds.
C22_SaveIsNoOpWhenDisabled ==
    [][~config.conversationHistory
          => /\ store' = store
             /\ (called' # <<>> /\ called'[1].op = "save") => ~called'[1].threw]_vars

\* saveSession was called with the history disabled and a transcript to save
C22_Witness ==
    /\ ~config.conversationHistory
    /\ called # <<>> /\ called[1].op = "save"
    /\ messages # <<>>

\* C23: loadSession signals a failure whenever the file of the id is missing
\* or does not hold a serialized session, a well-formed JSON text without the
\* id or without the messages included: a call that returned has read both.
C23_LoadSignalsFailure ==
    (called # <<>> /\ called[1].op = "load" /\ ~called[1].threw)
        => called[1].messages.kind = "list" /\ called[1].id.kind = "string"

----------------------------------------------------------------------------
(* Listing and searching the history *)

\* the ids a list of summaries or of results names
IdsOf(items) == {items[i].id : i \in 1..Len(items)}
SessionIdsOf(results) == {results[i].sessionId : i \in 1..Len(results)}

\* /search X with a directory that can be read
SearchForX == SearchConversations(<<"/", "search", " ", "X">>, TRUE)

\* C24: a search over a directory in which a file is not valid JSON still
\* reports the matches of the readable sessions: with s1 and s2 readable, both
\* holding the query, and s3 cut short, the search reports s1 and s2.
C24_SearchSkipsCorruptFiles ==
    [][(/\ SearchForX
        /\ DOMAIN store = StoredNames
        /\ store["s3"] = Corrupt
        /\ ~LoadSession(store, "s1").threw /\ ~LoadSession(store, "s2").threw)
          => {"s1", "s2"} \subseteq SessionIdsOf(found')]_vars

\* the text of a file is a serialized session: an object with its id and its
\* messages
IsSession(data) ==
    data.kind = "object" /\ Prop(data, "id").kind = "string" /\ Prop(data, "messages").kind = "list"

\* C25: listSessions returns one summary per stored session, with its id and
\* its number of turns, the session created last first, and the empty list
\* when the directory cannot be read.  Stated for directories all of whose
\* files are sessions.
C25_ListedByCreation ==
    [][\A readable \in BOOLEAN :
          (ListSessionsCall(readable) /\ \A f \in DOMAIN store : IsSession(ParseFile(store[f])))
              => IF ~readable THEN listed' = <<>>
                 ELSE /\ Len(listed') = Cardinality(DOMAIN store)
                      /\ IdsOf(listed') = DOMAIN store
                      /\ \A i \in 1..Len(listed') :
                            listed'[i].messageCount
                                = Len(Turns(LoadSession(store, listed'[i].id).messages))
                      /\ \A i, j \in 1..Len(listed') :
                            i < j => Created(listed'[i].id) >= Created(listed'[j].id)]_vars

\* the query occurs in the content, upper case taken for lower case
Contains(content, query) ==
    \E p \in 0..(Len(content) - Len(query)) :
        \A k \in 1..Len(query) : LowerCaseOf(content[p + k]) = LowerCaseOf(query[k])

\* the turns of a stored session that contain the query, in transcript order
HitsOf(data, query) ==
    SelectSeq(Turns(Prop(data, "messages")), LAMBDA t : Contains(t.content, query))

\* the results report the session f exactly when it has hits, once, with a
\* snippet for each of its first three hits
ReportedAs(results, f, hits, query) ==
    /\ f \in SessionIdsOf(results) <=> hits # <<>>
    /\ Cardinality({i \in 1..Len(results) : results[i].sessionId = f}) <= 1
    /\ \A i \in 1..Len(results) :
          results[i].sessionId = f
              => /\ Len(results[i].matches) = Min(Len(hits), 3)
                 /\ \A k \in 1..Len(results[i].matches) :
                       /\ results[i].matches[k].role = hits[k].role
                       /\ results[i].matches[k].snippet = ExtractSnippet(hits[k].content, query)

\* C26: a search matches the query as a substring of each turn's content,
\* upper case taken for lower case, over every stored session; a session is
\* reported exactly when a turn of it matches, with at most three snippets, one
\* for each of its first matching turns in transcript order.
C26_SearchReportsMatchingSessions ==
    [][\A l \in SearchLines :
          (Arg(l) # <<>> /\ SearchConversations(l, TRUE))
              => \A f \in DOMAIN store :
                    IsSession(ParseFile(store[f]))
                        => ReportedAs(found', f, HitsOf(ParseFile(store[f]), Arg(l)), Arg(l))]_vars

----------------------------------------------------------------------------
(* Snippets *)

\* where the query first occurs in the content, upper case taken for lower
\* case: the index of its first character, 0 when it does not occur
FirstMatch(content, query) ==
    Least({p \in 1..(Len(content) - Len(query) + 1) :
              \A k \in 1..Len(query) : LowerCaseOf(content[p + k - 1]) = LowerCaseOf(query[k])})

StartsWith(text, prefix) == Len(text) >= Len(prefix) /\ SubSeq(text, 1, Len(prefix)) = prefix
EndsWith(text, suffix) ==
    Len(text) >= Len(suffix) /\ SubSeq(text, Len(text) - Len(suffix) + 1, Len(text)) = suffix

\* the snippet of a content whose first match starts at p: bounded in length,
\* holding the match, with an ellipsis exactly on the sides that were cut
SnippetOf(content, query, p, snippet) ==
    /\ Len(snippet) <= ContextLength + Len(query) + ContextLength
                          + (IF StartsWith(snippet, Ellipsis) THEN Len(Ellipsis) ELSE 0)
                          + (IF EndsWith(snippet, Ellipsis) THEN Len(Ellipsis) ELSE 0)
    /\ IndexOf(snippet, SubSeq(content, p, p + Len(query) - 1)) # 0
    /\ StartsWith(snippet, Ellipsis) <=> p - 1 > ContextLength
    /\ EndsWith(snippet, Ellipsis) <=> p - 1 + Len(query) + ContextLength < Len(content)

\* the content of the one turn of the stored session
StoredContent == Turns(LoadSession(store, "s1").messages)[1].content

\* C27: for a content that contains the query the snippet is at most
\* 50 + |query| + 50 characters long plus an ellipsis for each side that was
\* cut, it contains the first match, and it carries an ellipsis on a side
\* exactly when the content was cut there, wherever the match sits.
C27_SnippetShowsFirstMatch ==
    [][\A l \in SnippetLines :
          (SearchConversations(l, TRUE) /\ FirstMatch(StoredContent, Arg(l)) # 0)
              => /\ Len(found') = 1 /\ Len(found'[1].matches) = 1
                 /\ SnippetOf(StoredContent, Arg(l), FirstMatch(StoredContent, Arg(l)),
                              found'[1].matches[1].snippet)]_vars

----------------------------------------------------------------------------
(* The exit path and interrupts *)

\* handleExit runs, from /exit or /quit or from the catch of an interrupt at
\* the input prompt, and the user answers the offer with yes or no
ExitPath(save, ioOk) ==
    \/ \E l \in ExitLines : ExitCommand(l, save, ioOk)
    \/ CatchForceClosed(save, ioOk)

\* C28: on the exit path the engine offers to save the transcript exactly
\* when the transcript is not empty, and the process then terminates with exit
\* status 0, whether the user chose to save or not.
C28_ExitOffersSaveAndEndsNormally ==
    [][\A save \in {"yes", "no"}, ioOk \in BOOLEAN :
          ExitPath(save, ioOk)
              => /\ offered' <=> messages # <<>>
                 /\ pc' = "exited"
                 /\ exitCode' = 0]_vars

\* C29: an interrupt that arrives while a response is streaming takes the
\* exit path an interrupt at the input prompt takes: the stream is abandoned,
\* no partial assistant turn is committed, and the catch that runs handleExit,
\* with its offer to save and its normal termination, is entered.
C29_InterruptWhileStreamingExits ==
    [][\A killed \in BOOLEAN :
          (pc = "streaming" /\ InterruptInFlight(killed))
              => /\ messages' = messages
                 /\ pc' = "caught"]_vars

\* a step that reads the next input line: a message sent, a command handled,
\* or the prompt rejecting on an interrupt
ReadsInput ==
    \/ sends' # sends
    \/ commands' # commands
    \/ pc # "caught" /\ pc' = "caught"

\* C30: at most one completion request is outstanding: the engine reads no
\* input line, runs no command and issues no request until the stream of the
\* request before has terminated and its result has been applied to the
\* transcript.
C30_OneRequestAtATime ==
    [][ReadsInput => pc = "idle" /\ promise # "pending" /\ outcome # "pending"]_vars

\* a second request is issued after the exchange of the first was committed
C30_Witness ==
    /\ sends = 2
    /\ pc = "streaming"
    /\ Len(messages) = 3
    /\ messages[2].role = "assistant"

----------------------------------------------------------------------------
(* The stream after its outcome *)

\* C31: a call of streamChatCompletion produces one terminal outcome, and once
\* the promise is settled the outcome stays and no further content delta is
\* surfaced, even if the source keeps delivering chunks.
C31_NoDeltaAfterOutcome ==
    [][(promise # "pending")
          => promise' = promise /\ surfaced' = surfaced]_vars

----------------------------------------------------------------------------
(* The order of the transcript *)

IsPrefix(s, t) == Len(s) <= Len(t) /\ SubSeq(t, 1, Len(s)) = s

\* a command that starts the transcript anew, or a search that ends with the
\* user loading a result
Discards ==
    \/ \E l \in SessionLines : HandleCommand(l, "failed")
    \/ commands' # commands /\ display'.text = "Conversation loaded"

\* sendMessage appends the answer: the round was successful
RoundEnds == pc = "streaming" /\ pc' = "idle" /\ messages' # messages

\* C32: the transcript order is the conversational order: apart from /clear,
\* /system and session loads a step only appends at the end, so every earlier
\* turn keeps its index, role and content, and a successful round appends the
\* user turn immediately followed by its assistant turn.
C32_TranscriptOnlyGrowsAtEnd ==
    [][/\ Discards \/ IsPrefix(messages, messages')
       /\ RoundEnds
            => /\ messages = request[1].messages
               /\ Last(messages).role = "user"
               /\ messages' = Append(messages, [role |-> "assistant", content |-> fullResponse])]_vars

----------------------------------------------------------------------------
(* The live session across /search and loads *)

\* a /search that ends without the user loading a result
SearchOnly ==
    /\ \E l \in SearchLines, readable \in BOOLEAN : SearchConversations(l, readable)
    /\ display'.text # "Conversation loaded"

\* C33: a /search that ends without the user loading a result is read-only
\* for the live session: the live transcript and the live session id are after
\* the search what they were before it.
C33_SearchLeavesLiveSession ==
    [][SearchOnly => messages' = messages /\ sessionId' = sessionId]_vars

----------------------------------------------------------------------------
(* The response and its chunks *)

\* the bytes of the response: the chunks one after the other
ResponseBytes == Flatten(wire)

\* the sentinel, if the response has it, is its last line
SentinelLast(bytes) == \A i \in 1..Len(bytes) : bytes[i] = DONE => i + 1 = Len(bytes)

\* the deltas the data handler surfaces when the response comes in one chunk
InOneChunk(bytes) == ProcessLines(Front(Split(ChunkToString(bytes), LineSeparator))).chunks

\* C34: the deltas surfaced for a response depend only on its character
\* sequence and not on how the transport cuts it into chunks: what has been
\* surfaced after the chunks delivered so far is what the same bytes surface
\* when delivered in one chunk (a frame cut in two is surfaced once, when its
\* line is complete).
C34_DeltasIndependentOfChunking ==
    SentinelLast(ResponseBytes) => surfaced = InOneChunk(ResponseBytes)

----------------------------------------------------------------------------
(* The stored settings *)

\* C35: in every reachable state the stored temperature lies in [0,2] (0..20
\* tenths) and the stored max-tokens value is a positive integer, whatever
\* /temp and /tokens commands and config and chat command lines, valid or
\* not, were applied from the defaults.
C35_StoredSettingsInRange ==
    /\ config.temperature \in 0..20
    /\ config.maxTokens \in Nat \ {0}

----------------------------------------------------------------------------
(* The engines of one process *)

\* C36: the program run with no arguments starts exactly one interactive chat
\* engine: the chat action runs once.
C36_OneEngine ==
    [][\A keyed, replyOk \in BOOLEAN :
          Launch(NoArgs, keyed, replyOk) /\ keyed => engines' = 1]_vars

----------------------------------------------------------------------------
(* A load that fails *)

\* /history listed sessions, the user picked one, and loadSession threw
HistoryLoadFails ==
    /\ \E readable \in BOOLEAN : ShowHistory(<<"/", "history">>, readable)
    /\ listed' # <<>>
    /\ display'.kind = "error"

\* C37: a loadSession that raises leaves the live transcript and the session
\* id as they were before the call; in /history the error is reported and the
\* loop keeps running, at the prompt, with the unchanged session.
C37_FailedLoadLeavesSession ==
    [][HistoryLoadFails
          => /\ messages' = messages
             /\ sessionId' = sessionId
             /\ display' = [kind |-> "error", text |-> "An error occurred"]
             /\ isRunning' /\ pc' = "idle"]_vars

\* a turn is in the transcript, and the one command handled was a /history
\* whose load failed
C37_Witness ==
    /\ messages # <<>>
    /\ commands = 1
    /\ listed # <<>>
    /\ found = <<>>
    /\ display = [kind |-> "error", text |-> "An error occurred"]
    /\ isRunning /\ pc = "idle"

----------------------------------------------------------------------------
(* The system turn *)

SystemTurns(msgs) == {i \in 1..Len(msgs) : msgs[i].role = "system"}

\* /system with a prompt is handled
SystemCommand == HandleCommand(<<"/", "system", " ", "C">>, "failed")

\* C38: while no stored session is loaded the transcript holds at most one
\* system turn, and it is the first turn: the start-up system prompt is added
\* before any other turn, and /system with a prompt discards every prior turn
\* and leaves the transcript equal to the single new system turn.
C38_SystemTurnFirst ==
    [][/\ SystemTurns(messages') \subseteq {1}
       /\ SystemCommand => messages' = <<[role |-> "system", content |-> <<"C">>]>>]_vars

\* the program was started with a system prompt, a message was typed, and
\* /system then replaced both turns by the new prompt
C38_Witness ==
    /\ sends >= 1
    /\ display = [kind |-> "success", text |-> "System prompt updated"]
    /\ messages = <<[role |-> "system", content |-> <<"C">>]>>

================================================================================
